---- MODULE Spec2Model ----
(***************************************************************************)
(* Day-by-day backtest engine of the SPY LEAPS strategy                    *)
(* (src/src/backtest.py, src/src/signals.py, src/src/pricing.py).          *)
(*                                                                         *)
(* Money, prices and premiums are integers.  A percentage comparison       *)
(* a / b * 100 <= -p of the code is evaluated cross-multiplied,            *)
(* a * 100 <= -p * b (b > 0), i.e. over the rationals.                     *)
(*                                                                         *)
(* The closed-form call price with time left (T > 0) depends on the        *)
(* volatility of the trailing prices through exp/log/normal-cdf; the model *)
(* keeps it as an unknown function of its inputs.  For each row of the     *)
(* series it holds two values of that function, drawn from PremSet the     *)
(* first time they are computed and the same every time they are computed  *)
(* again (quotes): the price of the contract open_position prices on that  *)
(* row (365 days to expiry), and the price on that row of the contracts    *)
(* already open (the modelled data give them one price).  With T <= 0 the  *)
(* price is the intrinsic value, computed as in the code.                  *)
(*                                                                         *)
(* The rows of the price table and of the VIX table are input data: a row  *)
(* is drawn when the first run reads it and stays what it is for every     *)
(* later read (prices, vixRows).                                           *)
(***************************************************************************)
EXTENDS Integers, Sequences, FiniteSets, TLC

VARIABLES
    cfg,               \* StrategyConfig of the engine (immutable)
    prices,            \* rows of the price table read so far: [date, close]
    tableLen,          \* number of rows of the price table, None until known
    vixLoaded,         \* load_data: FALSE when loading the VIX table failed (vix = None)
    vixRows,           \* VIX close of the row's date: Unset, NoRow or a value
    quotes,            \* closed-form call prices of each row: [entry, mark], Unset until computed
    positions,         \* BacktestEngine.positions
    closed_positions,  \* BacktestEngine.closed_positions
    equity_curve,      \* BacktestEngine.equity_curve
    signals,           \* BacktestEngine.signals
    cash,              \* BacktestEngine.cash
    pause_buying,      \* BacktestEngine.pause_buying
    days_above_200ma,  \* SignalGenerator.days_above_200ma
    db_trades,         \* rows of the store's trades table
    db_signals,        \* rows of the store's signals table
    phase,             \* "idle", "running", "done", "failed": where run() is
    day,               \* number of rows of the series the current run has processed
    results,           \* <<the metrics run() returned>>, <<>> before it returns
    runs,              \* number of run() calls started
    first,             \* <<what the first completed run produced>>, <<>> before
    last,              \* what the most recent step did (history of the step)
    sweep,             \* run_sensitivity_analysis: its inputs, position and result rows
    calc,              \* the most recent call of a pricing function: inputs and result
    other              \* where a second run over the same store is

vars == <<cfg, prices, tableLen, vixLoaded, vixRows, quotes, positions,
          closed_positions, equity_curve, signals, cash, pause_buying,
          days_above_200ma, db_trades, db_signals, phase, day, results,
          runs, first, last, sweep, calc, other>>

\* what the engine's run leaves alone
apart == <<sweep, calc, other>>

\* the engine, the store and the input data
enginevars == <<cfg, prices, tableLen, vixLoaded, vixRows, quotes, positions,
                closed_positions, equity_curve, signals, cash, pause_buying,
                days_above_200ma, db_trades, db_signals, phase, day, results,
                runs, first, last>>

-----------------------------------------------------------------------------
(* Bounds of the model *)

\* longest price series
MaxDays == 4
\* longest price series of the runs that follow the resume counter
MaxDaysLong == 5
\* run() calls per behaviour
MaxRuns == 2
\* parameter values of a sweep
MaxSweep == 5
\* spot prices handed to the pricing functions are n / SpotDenominator for
\* n in 1..MaxSpotUnits
SpotDenominator == 2
MaxSpotUnits == 100
\* the moneyness values, in percent
MoneynessSet == {0 - 5, 0, 5}
\* spot prices and strikes handed to the option pricing functions
MaxSpot == 4
\* days to expiry: past expiry, the expiry day, before expiry
ExpirySet == {0 - 3, 0, 4}
\* values the closed form can take for T > 0
ClosedFormSet == {0, 1, 7}
\* dates a position can expire on and be priced on
ExpiryDates == {3, 7}
PricingDates == {0, 3, 7, 10}

\* closing prices of the underlying
PriceSet == {2, 3, 4}
\* call prices with time left
PremSet == {0, 1}
\* VIX closes
VixSet == {25, 30}

(* Program constants *)

\* Position.mark_to_market, open_position: contract multiplier
ContractMultiplier == 100
\* open_position prices the new contract with 365 days to expiry
EntryPricingDays == 365
\* datetime.weekday() is the day number modulo 7
DaysPerWeek == 7
\* rolling windows of the two moving averages (200 and 50 rows in the code),
\* scaled to the length of the modelled series
MaLong == 3
MaShort == 2

None == -1
Unset == -2
NoRow == -3

-----------------------------------------------------------------------------
(* Arithmetic helpers *)

Max(a, b) == IF a >= b THEN a ELSE b

RECURSIVE SumSeq(_)
SumSeq(s) == IF s = <<>> THEN 0 ELSE Head(s) + SumSeq(Tail(s))

\* floor of a / b for a >= 0, b > 0: int() of a non-negative quotient
FloorDiv(a, b) == a \div b

\* Python round(): to the nearest integer, ties to the even one; n / d with d > 0
RoundHalfEven(n, d) ==
    LET q == n \div d
        r == n % d
    IN  IF 2 * r < d THEN q
        ELSE IF 2 * r > d THEN q + 1
        ELSE IF q % 2 = 0 THEN q ELSE q + 1

-----------------------------------------------------------------------------
(* pricing.py *)

\* get_strike_price with int() in the place of round()
StrikeOfFractionTruncated(n, d, moneyness) ==
    FloorDiv(n * (100 + moneyness), 100 * d)

\* get_strike_price with strike_spacing = 1.0 of the spot price n / d
StrikeOfFraction(n, d, moneyness) ==
    RoundHalfEven(n * (100 + moneyness), 100 * d)

\* get_strike_price with strike_spacing = 1.0; moneyness in percent
get_strike_price(spot, moneyness) == StrikeOfFraction(spot, 1, moneyness)

\* max(spot - strike, 0): the price with no time left
Intrinsic(spot, strike) == Max(spot - strike, 0)

\* black_scholes_call: T is the time to expiry in 365ths of a year, bs the
\* value of the closed form for T > 0 (see the head of the module)
black_scholes_call(S, K, T, bs) ==
    IF T <= 0 THEN Intrinsic(S, K) ELSE bs

\* calculate_option_premium taking the closed form on the expiry day
calculate_option_premium_on_expiry_day(spot, strike, days_to_expiry, bs) ==
    IF days_to_expiry < 0 THEN Intrinsic(spot, strike) ELSE bs

\* calculate_option_premium: intrinsic value when days_to_expiry <= 0, else
\* black_scholes_call with T = days_to_expiry / 365
calculate_option_premium(spot, strike, days_to_expiry, bs) ==
    IF days_to_expiry <= 0
    THEN Intrinsic(spot, strike)
    ELSE black_scholes_call(spot, strike, days_to_expiry, bs)

-----------------------------------------------------------------------------
(* signals.py: indicators of row i of the series t (a sequence of rows) *)

Close(t, i) == t[i].close

\* sum of the closes of rows lo..hi
RECURSIVE SumClose(_, _, _)
SumClose(t, lo, hi) ==
    IF lo > hi THEN 0
    ELSE IF lo = hi THEN Close(t, lo)
    ELSE LET mid == (lo + hi) \div 2
         IN  SumClose(t, lo, mid) + SumClose(t, mid + 1, hi)

\* sum of the w closes ending at row i (i >= w)
RollingSum(t, i, w) == SumClose(t, i - w + 1, i)

\* rolling(window=w): unavailable (NaN) before w rows exist
Available(i, w) == w >= 1 /\ i >= w

RECURSIVE MaxClose(_, _, _)
MaxClose(t, lo, hi) ==
    IF lo = hi THEN Close(t, hi)
    ELSE LET mid == (lo + hi) \div 2
         IN  Max(MaxClose(t, lo, mid), MaxClose(t, mid + 1, hi))

\* the rolling high taken over the rows up to the end of the table
rolling_high_to_end(c, t, i) == MaxClose(t, i - c.pause_lookback_days + 1, Len(t))

\* df['rolling_high']: maximum close of the pause_lookback_days rows ending at i
rolling_high(c, t, i) == MaxClose(t, i - c.pause_lookback_days + 1, i)

\* pd.notna(row['drawdown_pct'])
DrawdownAvailable(c, i) == Available(i, c.pause_lookback_days)

\* row['drawdown_pct'] <= -p, drawdown_pct = (close - rolling_high) / rolling_high * 100
DrawdownAtMost(c, t, i, p) ==
    (Close(t, i) - rolling_high(c, t, i)) * 100 <= (0 - p) * rolling_high(c, t, i)

\* row['drawdown_pct'] >= -p
DrawdownAtLeast(c, t, i, p) ==
    (Close(t, i) - rolling_high(c, t, i)) * 100 >= (0 - p) * rolling_high(c, t, i)

\* pd.notna(row['ma_200']), pd.notna(row['pct_from_200ma'])
Ma200Available(i) == Available(i, MaLong)

\* row['close'] > row['ma_200'], ma_200 = RollingSum / MaLong
AboveMa200(t, i) == Close(t, i) * MaLong > RollingSum(t, i, MaLong)

\* row['pct_from_200ma'] <= -p, pct_from_200ma = (close - ma_200) / ma_200 * 100
PctFromMa200AtMost(t, i, p) ==
    (Close(t, i) * MaLong - RollingSum(t, i, MaLong)) * 100
        <= (0 - p) * RollingSum(t, i, MaLong)

\* (mutant) the flag set while an average is missing, as not (ma_50 >= ma_200)
\* would set it
death_cross_unless_above(t, i) ==
    (Available(i, MaShort) /\ Available(i, MaLong)) =>
        RollingSum(t, i, MaShort) * MaLong < RollingSum(t, i, MaLong) * MaShort

\* df['death_cross'] = (ma_50 < ma_200).astype(int): 0 while either is NaN
death_cross(t, i) ==
    /\ Available(i, MaShort)
    /\ Available(i, MaLong)
    /\ RollingSum(t, i, MaShort) * MaLong < RollingSum(t, i, MaLong) * MaShort

\* SignalGenerator.is_buy_day
is_buy_day(c, date) == date % DaysPerWeek = c.buy_weekday

\* SignalGenerator.check_liquidate_condition: <<should_liquidate, reason>>
check_liquidate_condition(c, t, i) ==
    IF Ma200Available(i) /\ PctFromMa200AtMost(t, i, c.liquidate_pct_from_200ma)
    THEN <<TRUE, "below 200-day MA">>
    ELSE IF DrawdownAvailable(c, i) /\ DrawdownAtMost(c, t, i, c.liquidate_pct_from_peak)
    THEN <<TRUE, "drawdown from peak">>
    ELSE IF c.use_death_cross /\ death_cross(t, i)
    THEN <<TRUE, "death cross">>
    ELSE <<FALSE, "">>

\* check_pause_condition taking a date without a VIX row for a VIX above the
\* threshold
check_pause_condition_missing_row(c, t, i, loaded, v) ==
    IF DrawdownAvailable(c, i) /\ DrawdownAtMost(c, t, i, c.pause_drawdown_pct)
    THEN <<TRUE, "drawdown">>
    ELSE IF loaded /\ (v = NoRow \/ v > c.vix_threshold)
    THEN <<TRUE, "vix">>
    ELSE <<FALSE, "">>

\* SignalGenerator.check_pause_condition: <<should_pause, reason>>;
\* v is the VIX close of the row's date, NoRow when the table has none,
\* loaded is FALSE when vix_data is None
check_pause_condition(c, t, i, loaded, v) ==
    IF DrawdownAvailable(c, i) /\ DrawdownAtMost(c, t, i, c.pause_drawdown_pct)
    THEN <<TRUE, "drawdown">>
    ELSE IF loaded /\ v # NoRow /\ v > c.vix_threshold
    THEN <<TRUE, "vix">>
    ELSE <<FALSE, "">>

\* the drawdown rule of check_pause_condition alone: the VIX is read only when it fails
PauseByDrawdown(c, t, i) ==
    DrawdownAvailable(c, i) /\ DrawdownAtMost(c, t, i, c.pause_drawdown_pct)

\* SignalGenerator.check_resume_condition: [resume, reason, counter], counter the
\* value of days_above_200ma after the call, n its value before
check_resume_condition(c, t, i, n) ==
    LET above == Ma200Available(i) /\ AboveMa200(t, i)
        n1 == IF ~Ma200Available(i) THEN n
              ELSE IF above THEN n + 1 ELSE 0
        recovered == DrawdownAvailable(c, i) /\ DrawdownAtLeast(c, t, i, c.resume_pct)
    IN  IF above /\ n1 >= c.resume_consec_days
        THEN [resume |-> TRUE, reason |-> "above 200-day MA", counter |-> 0]
        ELSE IF recovered
        THEN [resume |-> TRUE, reason |-> "drawdown recovered", counter |-> n1]
        ELSE [resume |-> FALSE, reason |-> "", counter |-> n1]

-----------------------------------------------------------------------------
(* backtest.py: Position *)

\* the closed-form price of position p on row i of t, q the quotes of row i:
\* the contract entered on row i with EntryPricingDays to expiry is the one
\* open_position priced on that row from the same inputs
ClosedFormPrice(c, p, t, i, q) ==
    IF p.entry_date = t[i].date /\ c.tenor_days = EntryPricingDays
    THEN q.entry ELSE q.mark

\* Position.__init__
NewPosition(date, price, strike, premium, contracts, expiry_date) ==
    [entry_date |-> date, entry_price |-> price, strike |-> strike,
     entry_premium |-> premium, contracts |-> contracts,
     expiry_date |-> expiry_date,
     exit_date |-> None, exit_price |-> None, exit_premium |-> None, pnl |-> 0]

\* the premium of position p on row i of t: the days_to_expiry branch shared by
\* Position.mark_to_market and close_all_positions
CurrentPremium(c, p, t, i, q) ==
    calculate_option_premium(Close(t, i), p.strike, p.expiry_date - t[i].date,
                             ClosedFormPrice(c, p, t, i, q))

\* Position.mark_to_market valuing a position past its expiry at nothing
mark_to_market_expired_worthless(c, p, t, i, q) ==
    IF p.expiry_date - t[i].date <= 0
    THEN 0
    ELSE CurrentPremium(c, p, t, i, q) * p.contracts * ContractMultiplier

\* Position.mark_to_market
mark_to_market(c, p, t, i, q) ==
    CurrentPremium(c, p, t, i, q) * p.contracts * ContractMultiplier

\* (mutant) the P&L of one contract
ClosePnlPerContract(p, exit_premium) ==
    (exit_premium - p.entry_premium) * ContractMultiplier

\* the P&L Position.close stores
ClosePnl(p, exit_premium) ==
    (exit_premium - p.entry_premium) * p.contracts * ContractMultiplier

\* Position.close leaving the exit date and the exit price unset
close_without_exit(p, exit_date, exit_price, exit_premium) ==
    [p EXCEPT !.exit_premium = exit_premium, !.pnl = ClosePnl(p, exit_premium)]

\* Position.close
close(p, exit_date, exit_price, exit_premium) ==
    [p EXCEPT !.exit_date = exit_date, !.exit_price = exit_price,
              !.exit_premium = exit_premium, !.pnl = ClosePnl(p, exit_premium)]

\* Position.to_dict: the trade record handed to Database.save_trade
to_dict(p) ==
    [entry_date |-> p.entry_date, exit_date |-> p.exit_date,
     entry_price |-> p.entry_price, exit_price |-> p.exit_price,
     option_strike |-> p.strike, option_entry_premium |-> p.entry_premium,
     option_exit_premium |-> p.exit_premium, contracts |-> p.contracts,
     pnl |-> p.pnl, notes |-> ""]

-----------------------------------------------------------------------------
(* backtest.py: BacktestEngine *)

Signal(date, type, details) ==
    [date |-> date, signal_type |-> type, details |-> details]

\* sum of entry_premium * contracts * 100 over the open positions
CostBasis(ps) ==
    SumSeq([k \in 1..Len(ps) |->
                ps[k].entry_premium * ps[k].contracts * ContractMultiplier])

\* (mutant) the exposure test left out
ExposureExceededNever(c, ps, total_cost) == FALSE

\* calculate_exposure() + total_cost / initial_capital * 100 > max_exposure_pct
ExposureExceeded(c, ps, total_cost) ==
    (CostBasis(ps) + total_cost) * 100 > c.max_exposure_pct * c.initial_capital

\* the number of contracts without the floor of one contract
ContractsForUnfloored(c, premium) ==
    IF premium * ContractMultiplier > 0
    THEN FloorDiv(c.weekly_amount, premium * ContractMultiplier)
    ELSE 1

\* open_position: the number of contracts bought for the weekly amount
ContractsFor(c, premium) ==
    IF premium * ContractMultiplier > 0
    THEN Max(1, FloorDiv(c.weekly_amount, premium * ContractMultiplier))
    ELSE 1

\* (mutant) the cash test left out
CashShortNever(total_cost, csh) == FALSE

\* open_position: the cash test, total_cost > self.cash returns
CashShort(total_cost, csh) == total_cost > csh

\* open_position with the exposure test before the cash test
open_position_exposure_first(c, e, t, i, q) ==
    LET date == t[i].date
        price == Close(t, i)
        strike == get_strike_price(price, c.strike_moneyness)
        expiry == date + c.tenor_days
        premium == calculate_option_premium(price, strike, EntryPricingDays,
                                            q.entry)
        contracts == ContractsFor(c, premium)
        total_cost == premium * contracts * ContractMultiplier
    IN  IF ExposureExceeded(c, e.positions, total_cost)
        THEN [e EXCEPT !.signals = Append(@, Signal(date, "MAX_EXPOSURE",
                                          [text |-> "Maximum exposure reached, skipping buy"])),
                       !.outcome = "max_exposure"]
        ELSE IF CashShort(total_cost, e.cash)
        THEN [e EXCEPT !.outcome = "no_cash"]
        ELSE [e EXCEPT !.positions = Append(@, NewPosition(date, price, strike,
                                                 premium, contracts, expiry)),
                       !.cash = @ - total_cost,
                       !.signals = Append(@, Signal(date, "BUY",
                                          [contracts |-> contracts, strike |-> strike,
                                           premium |-> premium])),
                       !.outcome = "bought"]

\* open_position, on row i of t with the engine in state e = [positions, cash,
\* signals]: the state after it and what it did
open_position(c, e, t, i, q) ==
    LET date == t[i].date
        price == Close(t, i)
        strike == get_strike_price(price, c.strike_moneyness)
        expiry == date + c.tenor_days
        premium == calculate_option_premium(price, strike, EntryPricingDays,
                                            q.entry)
        contracts == ContractsFor(c, premium)
        total_cost == premium * contracts * ContractMultiplier
    IN  IF CashShort(total_cost, e.cash)
        THEN [e EXCEPT !.outcome = "no_cash"]
        ELSE IF ExposureExceeded(c, e.positions, total_cost)
        THEN [e EXCEPT !.signals = Append(@, Signal(date, "MAX_EXPOSURE",
                                          [text |-> "Maximum exposure reached, skipping buy"])),
                       !.outcome = "max_exposure"]
        ELSE [e EXCEPT !.positions = Append(@, NewPosition(date, price, strike,
                                                 premium, contracts, expiry)),
                       !.cash = @ - total_cost,
                       !.signals = Append(@, Signal(date, "BUY",
                                          [contracts |-> contracts, strike |-> strike,
                                           premium |-> premium])),
                       !.outcome = "bought"]

\* the positions of ps as close_all_positions leaves them on row i
ClosedOn(c, ps, t, i, q) ==
    [k \in 1..Len(ps) |->
        close(ps[k], t[i].date, Close(t, i), CurrentPremium(c, ps[k], t, i, q))]

\* the cash returned for one contract of each position closed
ProceedsPerContract(cl) ==
    SumSeq([k \in 1..Len(cl) |-> cl[k].exit_premium * ContractMultiplier])

\* close_all_positions: the cash returned by the positions it closes
Proceeds(cl) ==
    SumSeq([k \in 1..Len(cl) |->
                cl[k].exit_premium * cl[k].contracts * ContractMultiplier])

\* close_all_positions on row i of t, engine state e = [positions,
\* closed_positions, cash, signals, db_trades]
close_all_positions(c, e, t, i, q, reason) ==
    LET cl == ClosedOn(c, e.positions, t, i, q)
    IN  [e EXCEPT !.cash = @ + Proceeds(cl),
                  !.db_trades = @ \o [k \in 1..Len(cl) |-> to_dict(cl[k])],
                  !.closed_positions = @ \o cl,
                  !.positions = <<>>,
                  !.signals = Append(@, Signal(t[i].date, "LIQUIDATE",
                                               [text |-> reason]))]

\* mark_to_market_all
mark_to_market_all(c, ps, csh, t, i, q) ==
    csh + SumSeq([k \in 1..Len(ps) |-> mark_to_market(c, ps[k], t, i, q)])

\* calculate_metrics: the entries that are integers, and the equity curve the
\* remaining ratios are computed from
calculate_metrics(c, curve, closed) ==
    LET wins == Cardinality({k \in 1..Len(closed) : closed[k].pnl > 0})
    IN  [final_value |-> curve[Len(curve)].value,
         total_trades |-> Len(closed),
         winning_trades |-> wins,
         losing_trades |-> Len(closed) - wins,
         equity_curve |-> curve]

-----------------------------------------------------------------------------
(* Configurations and input data *)

\* StrategyConfig; tenor_days is int(time_to_expiry_years * 365)
BaseConfig ==
    [weekly_amount |-> 200, buy_weekday |-> 0, strike_moneyness |-> 0,
     pause_drawdown_pct |-> 25, pause_lookback_days |-> 2, vix_threshold |-> 25,
     liquidate_pct_from_200ma |-> 30, liquidate_pct_from_peak |-> 50,
     use_death_cross |-> FALSE, resume_consec_days |-> 2, resume_pct |-> 5,
     max_exposure_pct |-> 50, tenor_days |-> 365, initial_capital |-> 400]

LongLookback == [BaseConfig EXCEPT !.pause_lookback_days = 9]

\* the engines of the model: a configuration, and whether the store's VIX table loads
Setups ==
    {<<[BaseConfig EXCEPT !.buy_weekday = 3, !.pause_drawdown_pct = 40], TRUE>>,
     <<BaseConfig, FALSE>>,
     <<[BaseConfig EXCEPT !.buy_weekday = 3], FALSE>>,
     <<[BaseConfig EXCEPT !.tenor_days = 7], FALSE>>,
     <<[BaseConfig EXCEPT !.max_exposure_pct = 100, !.initial_capital = 300], FALSE>>,
     <<[BaseConfig EXCEPT !.use_death_cross = TRUE], FALSE>>,
     <<LongLookback, FALSE>>}

\* the engines whose run is repeated
RerunSetups ==
    {<<BaseConfig, FALSE>>,
     <<LongLookback, FALSE>>,
     <<[LongLookback EXCEPT !.buy_weekday = 3], FALSE>>}

\* the engine whose resume counter is followed over a longer series
ResumeSetups == {<<[BaseConfig EXCEPT !.buy_weekday = 3], FALSE>>}

\* the engines that run over a store that holds the records of an earlier run
StaleSetups ==
    {<<BaseConfig, FALSE>>, <<[BaseConfig EXCEPT !.buy_weekday = 3], FALSE>>}

\* the date of the row after the one dated d: the table holds a row for day 0
\* of every week and one for day 3
NextDate(d) == IF d % DaysPerWeek = 0 THEN d + 3 ELSE d + 4

\* the rows the price table can hold after the rows of t
NextRows(t) ==
    {[date |-> IF t = <<>> THEN 0 ELSE NextDate(t[Len(t)].date), close |-> cl]
        : cl \in PriceSet}

NoQuotes == [entry |-> Unset, mark |-> Unset]

-----------------------------------------------------------------------------
(* The state machine *)

NoStep == [kind |-> "none"]

\* no sweep, no pricing call, no second run
NoSweep == [values |-> <<>>, idx |-> 0, rows |-> <<>>, log |-> <<>>, pc |-> "none"]
NoCall == [op |-> "none"]
NoOther == [pc |-> "none"]

\* a newly constructed engine over a store that holds the given trade and
\* signal records
EngineInit(setups, trades, sigs) ==
    /\ \E su \in setups : cfg = su[1] /\ vixLoaded = su[2]
    /\ prices = <<>>
    /\ tableLen = None
    /\ vixRows = [i \in 1..Max(MaxDays, MaxDaysLong) |-> Unset]
    /\ quotes = [i \in 1..Max(MaxDays, MaxDaysLong) |-> NoQuotes]
    \* BacktestEngine.__init__
    /\ positions = <<>>
    /\ closed_positions = <<>>
    /\ equity_curve = <<>>
    /\ signals = <<>>
    /\ cash = cfg.initial_capital
    /\ pause_buying = FALSE
    \* SignalGenerator.__init__
    /\ days_above_200ma = 0
    /\ db_trades = trades
    /\ db_signals = sigs
    /\ phase = "idle"
    /\ day = 0
    /\ results = <<>>
    /\ runs = 0
    /\ first = <<>>
    /\ last = NoStep

InitWith(setups) ==
    /\ EngineInit(setups, <<>>, <<>>)
    /\ sweep = NoSweep
    /\ calc = NoCall
    /\ other = NoOther

Init == InitWith(Setups)

\* (mutant) run() without the clearing of the store
RunBodyKeepsStore ==
    /\ runs < MaxRuns
    /\ runs' = runs + 1
    /\ UNCHANGED apart
    /\ \E empty \in (IF tableLen = None THEN BOOLEAN ELSE {tableLen = 0}) :
        IF empty
        THEN /\ phase' = "failed"
             /\ tableLen' = 0
             /\ last' = [kind |-> "fail"]
             /\ UNCHANGED <<cfg, prices, vixLoaded, vixRows, quotes, positions,
                            closed_positions, equity_curve, signals, cash,
                            pause_buying, days_above_200ma, db_trades,
                            db_signals, day, results, first>>
        ELSE /\ phase' = "running"
             /\ UNCHANGED <<db_trades, db_signals>>
             /\ positions' = <<>>
             /\ closed_positions' = <<>>
             /\ equity_curve' = <<>>
             /\ signals' = <<>>
             /\ cash' = cfg.initial_capital
             /\ pause_buying' = FALSE
             /\ day' = 0
             /\ results' = <<>>
             /\ last' = [kind |-> "start"]
             /\ UNCHANGED <<cfg, prices, tableLen, vixLoaded, vixRows, quotes,
                            days_above_200ma, first>>

\* (mutant) run() with the store cleared before the price table is tested
RunBodyClearsFirst ==
    /\ runs < MaxRuns
    /\ runs' = runs + 1
    /\ UNCHANGED apart
    /\ \E empty \in (IF tableLen = None THEN BOOLEAN ELSE {tableLen = 0}) :
        IF empty
        THEN /\ phase' = "failed"
             /\ tableLen' = 0
             /\ last' = [kind |-> "fail"]
             /\ db_trades' = <<>>
             /\ db_signals' = <<>>
             /\ UNCHANGED <<cfg, prices, vixLoaded, vixRows, quotes, positions,
                            closed_positions, equity_curve, signals, cash,
                            pause_buying, days_above_200ma, day, results, first>>
        ELSE /\ phase' = "running"
             /\ db_trades' = <<>>
             /\ db_signals' = <<>>
             /\ positions' = <<>>
             /\ closed_positions' = <<>>
             /\ equity_curve' = <<>>
             /\ signals' = <<>>
             /\ cash' = cfg.initial_capital
             /\ pause_buying' = FALSE
             /\ day' = 0
             /\ results' = <<>>
             /\ last' = [kind |-> "start"]
             /\ UNCHANGED <<cfg, prices, tableLen, vixLoaded, vixRows, quotes,
                            days_above_200ma, first>>

\* run(), up to the loop: load the data, fail on an empty price table, clear
\* the store, initialise the engine
RunBody ==
    /\ runs < MaxRuns
    /\ runs' = runs + 1
    /\ UNCHANGED apart
    /\ \E empty \in (IF tableLen = None THEN BOOLEAN ELSE {tableLen = 0}) :
        IF empty
        THEN /\ phase' = "failed"
             /\ tableLen' = 0
             /\ last' = [kind |-> "fail"]
             /\ UNCHANGED <<cfg, prices, vixLoaded, vixRows, quotes, positions,
                            closed_positions, equity_curve, signals, cash,
                            pause_buying, days_above_200ma, db_trades,
                            db_signals, day, results, first>>
        ELSE /\ phase' = "running"
             /\ db_trades' = <<>>
             /\ db_signals' = <<>>
             /\ positions' = <<>>
             /\ closed_positions' = <<>>
             /\ equity_curve' = <<>>
             /\ signals' = <<>>
             /\ cash' = cfg.initial_capital
             /\ pause_buying' = FALSE
             /\ day' = 0
             /\ results' = <<>>
             /\ last' = [kind |-> "start"]
             /\ UNCHANGED <<cfg, prices, tableLen, vixLoaded, vixRows, quotes,
                            days_above_200ma, first>>

RunStart == phase = "idle" /\ RunBody

\* the engine, as DayResult and close_all_positions take it
Engine ==
    [positions |-> positions, closed_positions |-> closed_positions,
     equity_curve |-> equity_curve, signals |-> signals, cash |-> cash,
     pause_buying |-> pause_buying, days_above_200ma |-> days_above_200ma,
     db_trades |-> db_trades, step |-> "none", resumed |-> FALSE,
     outcome |-> "none"]

\* (mutant) liquidation without the test for open positions
LiquidatesAlways(c, ps, t, i) == check_liquidate_condition(c, t, i)[1]

\* run(): "if should_liquidate and len(self.positions) > 0"
Liquidates(c, ps, t, i) ==
    check_liquidate_condition(c, t, i)[1] /\ Len(ps) > 0

\* (mutant) a liquidation day without its equity sample, as when the sample
\* is taken after the liquidation has ended the iteration
LiquidateStepUnsampled(c, e, t, i, q) ==
    [close_all_positions(c, e, t, i, q, check_liquidate_condition(c, t, i)[2])
        EXCEPT !.pause_buying = TRUE, !.step = "liquidate",
               !.equity_curve = SubSeq(@, 1, Len(@) - 1)]

\* (mutant) a liquidation that leaves the pause state as it was
LiquidateStepNoPause(c, e, t, i, q) ==
    [close_all_positions(c, e, t, i, q, check_liquidate_condition(c, t, i)[2])
        EXCEPT !.step = "liquidate"]

\* run(): the liquidation of row i, after which the iteration ends; the engine after it
LiquidateStep(c, e, t, i, q) ==
    [close_all_positions(c, e, t, i, q, check_liquidate_condition(c, t, i)[2])
        EXCEPT !.pause_buying = TRUE, !.step = "liquidate"]

\* (mutant) the resume check made whether or not the engine is paused
ResumeStepUnguarded(c, e, t, i) ==
    LET rc == check_resume_condition(c, t, i, e.days_above_200ma)
    IN  IF rc.resume
        THEN [e EXCEPT !.days_above_200ma = rc.counter,
                       !.pause_buying = FALSE,
                       !.signals = Append(@, Signal(t[i].date, "RESUME",
                                                    [text |-> rc.reason])),
                       !.resumed = TRUE]
        ELSE [e EXCEPT !.days_above_200ma = rc.counter]

\* run(): the resume check of a paused engine; the engine after it
ResumeStep(c, e, t, i) ==
    LET rc == check_resume_condition(c, t, i, e.days_above_200ma)
    IN  IF ~e.pause_buying THEN e
        ELSE IF rc.resume
        THEN [e EXCEPT !.days_above_200ma = rc.counter,
                       !.pause_buying = FALSE,
                       !.signals = Append(@, Signal(t[i].date, "RESUME",
                                                    [text |-> rc.reason])),
                       !.resumed = TRUE]
        ELSE [e EXCEPT !.days_above_200ma = rc.counter]

\* (mutant) the gate without the weekday test
BuyGateEveryDay(c, e, t, i) == ~e.pause_buying

\* (mutant) the gate without the pause test
BuyGateAnyState(c, e, t, i) == is_buy_day(c, t[i].date)

\* run(): "if self.signal_gen.is_buy_day(date) and not self.pause_buying"
BuyGate(c, e, t, i) == is_buy_day(c, t[i].date) /\ ~e.pause_buying

\* run(): the pause check and the purchase of a buy day; the engine after it
BuyStep(c, e, t, i, q, loaded, v) ==
    LET sp == check_pause_condition(c, t, i, loaded, v)
    IN  IF sp[1]
        THEN [e EXCEPT !.pause_buying = TRUE,
                       !.signals = Append(@, Signal(t[i].date, "PAUSE",
                                                    [text |-> sp[2]])),
                       !.step = "pause"]
        ELSE [open_position(c, e, t, i, q) EXCEPT !.step = "buy"]

\* run(): the equity sample of row i
EquitySample(c, e, t, i, q) ==
    [date |-> t[i].date,
     value |-> mark_to_market_all(c, e.positions, e.cash, t, i, q),
     spy_price |-> Close(t, i),
     positions |-> Len(e.positions)]

\* one iteration of the loop of run() on row i of the table t; e0 is the engine
\* before it, q the closed-form prices of the row, v its VIX close
DayResult(c, e0, t, i, q, loaded, v) ==
    LET e1 == [e0 EXCEPT !.equity_curve = Append(@, EquitySample(c, e0, t, i, q))]
    IN  IF Liquidates(c, e1.positions, t, i)
        THEN LiquidateStep(c, e1, t, i, q)
        ELSE LET e2 == ResumeStep(c, e1, t, i)
             IN  IF BuyGate(c, e2, t, i)
                 THEN BuyStep(c, e2, t, i, q, loaded, v)
                 ELSE e2

(* What an iteration reads of the input data *)

\* it reaches check_pause_condition
ChecksPause(c, e0, t, i) ==
    /\ ~Liquidates(c, e0.positions, t, i)
    /\ BuyGate(c, ResumeStep(c, e0, t, i), t, i)

\* check_pause_condition reads the VIX close of the row
ReadsVix(c, e0, t, i, loaded) ==
    ChecksPause(c, e0, t, i) /\ loaded /\ ~PauseByDrawdown(c, t, i)

\* open_position prices a new contract
PricesEntry(c, e0, t, i, loaded, v) ==
    ChecksPause(c, e0, t, i) /\ ~check_pause_condition(c, t, i, loaded, v)[1]

\* a position of ps has time left on row i: its closed-form price is computed
PricesMark(c, ps, t, i) ==
    \E k \in 1..Len(ps) :
        /\ ps[k].expiry_date - t[i].date > 0
        /\ ~(ps[k].entry_date = t[i].date /\ c.tenor_days = EntryPricingDays)

\* the values x can take once computed: what it is, or any of S when first computed
Drawn(x, needed, S) == IF x # Unset THEN {x} ELSE IF needed THEN S ELSE {Unset}

\* one iteration of the loop of run(), on a series of at most n rows
ProcessDayWithin(n) ==
    /\ phase = "running"
    /\ IF tableLen = None THEN day < n ELSE day < tableLen
    /\ \E row \in (IF day < Len(prices) THEN {prices[day + 1]} ELSE NextRows(prices)) :
        LET i == day + 1
            t == IF day < Len(prices) THEN prices ELSE Append(prices, row)
            e0 == Engine
        IN  \E v \in Drawn(vixRows[i], ReadsVix(cfg, e0, t, i, vixLoaded),
                           {NoRow} \cup VixSet) :
            \E qe \in Drawn(quotes[i].entry,
                            PricesEntry(cfg, e0, t, i, vixLoaded, v), PremSet) :
            \E qm \in Drawn(quotes[i].mark,
                            PricesMark(cfg, positions, t, i), PremSet) :
                LET q == [entry |-> qe, mark |-> qm]
                    r == DayResult(cfg, e0, t, i, q, vixLoaded, v)
                IN  /\ prices' = t
                    /\ vixRows' = [vixRows EXCEPT ![i] = v]
                    /\ quotes' = [quotes EXCEPT ![i] = q]
                    /\ positions' = r.positions
                    /\ closed_positions' = r.closed_positions
                    /\ equity_curve' = r.equity_curve
                    /\ signals' = r.signals
                    /\ cash' = r.cash
                    /\ pause_buying' = r.pause_buying
                    /\ days_above_200ma' = r.days_above_200ma
                    /\ db_trades' = r.db_trades
                    /\ day' = i
                    /\ last' = [kind |-> "day", step |-> r.step,
                                resumed |-> r.resumed, outcome |-> r.outcome,
                                was_paused |-> pause_buying,
                                counter |-> days_above_200ma,
                                positions |-> positions,
                                closed |-> Len(closed_positions),
                                cash |-> cash, signals |-> Len(signals)]
    /\ UNCHANGED <<cfg, tableLen, vixLoaded, db_signals, phase, results, runs, first>>
    /\ UNCHANGED apart

ProcessDay == ProcessDayWithin(MaxDays)

\* (mutant) the end-of-run close skipped while buying is paused
EndOfRunCloseUnlessPaused(c, e, t, i, q) ==
    IF Len(e.positions) > 0 /\ ~e.pause_buying
    THEN close_all_positions(c, e, t, i, q, "End of backtest period")
    ELSE e

\* run(), after the loop: "Close any remaining positions at end"
EndOfRunClose(c, e, t, i, q) ==
    IF Len(e.positions) > 0
    THEN close_all_positions(c, e, t, i, q, "End of backtest period")
    ELSE e

\* run(), after the loop: close what is still open, save the signals, compute
\* the metrics
FinishRun ==
    /\ phase = "running"
    /\ IF tableLen = None THEN day >= 1 ELSE day = tableLen
    /\ \E qm \in Drawn(quotes[day].mark,
                       PricesMark(cfg, positions, prices, day), PremSet) :
        LET q == [quotes[day] EXCEPT !.mark = qm]
            r == EndOfRunClose(cfg, Engine, prices, day, q)
            m == calculate_metrics(cfg, r.equity_curve, r.closed_positions)
        IN  /\ quotes' = [quotes EXCEPT ![day] = q]
            /\ positions' = r.positions
            /\ closed_positions' = r.closed_positions
            /\ signals' = r.signals
            /\ cash' = r.cash
            /\ db_trades' = r.db_trades
            /\ db_signals' = db_signals \o r.signals
            /\ results' = <<m>>
            /\ first' = IF first = <<>>
                        THEN <<[signals |-> r.signals, trades |-> r.db_trades,
                                store_signals |-> db_signals \o r.signals,
                                results |-> m, fresh |-> FALSE]>>
                        ELSE first
            /\ last' = [kind |-> "finish", positions |-> positions,
                        closed |-> Len(closed_positions),
                        cash |-> cash, signals |-> Len(signals),
                        was_paused |-> pause_buying]
    /\ tableLen' = day
    /\ phase' = "done"
    /\ UNCHANGED <<cfg, prices, vixLoaded, vixRows, equity_curve, pause_buying,
                   days_above_200ma, day, runs>>
    /\ UNCHANGED apart

Next == RunStart \/ ProcessDay \/ FinishRun

\* one run of a newly constructed engine
Spec == Init /\ [][Next]_vars

\* run() called again on the engine that has completed a run
Rerun == phase = "done" /\ RunBody

\* a new engine constructed for the same configuration and store:
\* BacktestEngine.__init__ and SignalGenerator.__init__
NewEngine ==
    /\ phase = "done"
    /\ runs < MaxRuns
    /\ first # <<>> /\ ~first[1].fresh
    /\ positions' = <<>>
    /\ closed_positions' = <<>>
    /\ equity_curve' = <<>>
    /\ signals' = <<>>
    /\ cash' = cfg.initial_capital
    /\ pause_buying' = FALSE
    /\ days_above_200ma' = 0
    /\ phase' = "idle"
    /\ first' = <<[first[1] EXCEPT !.fresh = TRUE]>>
    /\ last' = [kind |-> "new"]
    /\ UNCHANGED <<cfg, prices, tableLen, vixLoaded, vixRows, quotes, db_trades,
                   db_signals, day, results, runs>>
    /\ UNCHANGED apart

NextRerun == Next \/ Rerun \/ NewEngine

\* runs repeated over the same price history
SpecRerun == InitWith(RerunSetups) /\ [][NextRerun]_vars

\* one run over a series of up to MaxDaysLong rows
ProcessDayLong == ProcessDayWithin(MaxDaysLong)

NextLong == RunStart \/ ProcessDayLong \/ FinishRun

SpecLong == InitWith(ResumeSetups) /\ [][NextLong]_vars

\* the records an earlier run, of another engine, left in the store
StaleTrades ==
    <<[entry_date |-> 0, exit_date |-> 3, entry_price |-> 4, exit_price |-> 2,
       option_strike |-> 4, option_entry_premium |-> 1,
       option_exit_premium |-> 0, contracts |-> 2, pnl |-> 0 - 200,
       notes |-> ""]>>

StaleSignals ==
    <<Signal(0, "BUY", [contracts |-> 2, strike |-> 4, premium |-> 1]),
      Signal(3, "LIQUIDATE", [text |-> "End of backtest period"])>>

InitStale ==
    /\ EngineInit(StaleSetups, StaleTrades, StaleSignals)
    /\ sweep = NoSweep
    /\ calc = NoCall
    /\ other = NoOther

\* one run over a store that holds the records of an earlier run
SpecStale == InitStale /\ [][Next]_vars

\* max_exposure_pct = 5, weekly_amount = 10000, initial_capital = 100000 in
\* units of money in which the premiums of PremSet are 0 and 1: a unit of
\* 50 dollars (premiums of 50 dollars a share) and a unit of 1666 dollars
\* (premiums of 1666 dollars a share, of an underlying in the tens of
\* thousands)
ExposureSetups ==
    {<<[BaseConfig EXCEPT !.max_exposure_pct = 5, !.weekly_amount = 200,
                          !.initial_capital = 2000], FALSE>>,
     <<[BaseConfig EXCEPT !.max_exposure_pct = 5, !.weekly_amount = 6,
                          !.initial_capital = 60], FALSE>>}

\* weekly amounts below, between and at multiples of the cost of a contract
SizingSetups ==
    {<<[BaseConfig EXCEPT !.weekly_amount = 50], FALSE>>,
     <<[BaseConfig EXCEPT !.weekly_amount = 150], FALSE>>,
     <<[BaseConfig EXCEPT !.weekly_amount = 250, !.max_exposure_pct = 100], FALSE>>,
     <<[BaseConfig EXCEPT !.weekly_amount = 300, !.max_exposure_pct = 100], FALSE>>}

SpecSizing == InitWith(SizingSetups) /\ [][Next]_vars

\* run() is a loop over the rows of a finite table: it always completes
SpecExposure == InitWith(ExposureSetups) /\ [][Next]_vars /\ WF_vars(Next)

-----------------------------------------------------------------------------
(* The parameter sweep: run_sensitivity_analysis *)

\* analysis.py binds the name StrategyConfig: it imports pandas, numpy,
\* matplotlib, plotly and typing, and inside the function BacktestEngine
\* only, so the name is unbound when the loop body evaluates it
StrategyConfigBound == FALSE

\* the parameter values of a sweep, in the order of the loops: value k is
\* TRUE when the backtest of the k-th value raises
SweepInputs == UNION {[1..n -> BOOLEAN] : n \in 0..MaxSweep}

\* the try statement of the loop body for the value after sw.idx: a row when
\* engine.run() returns, a logged message when it raises
SweepOutcome(sw, fails) ==
    IF fails
    THEN [sw EXCEPT !.idx = @ + 1, !.log = Append(@, sw.idx + 1)]
    ELSE [sw EXCEPT !.idx = @ + 1, !.rows = Append(@, [Value |-> sw.idx + 1])]

\* the loop body: StrategyConfig(**base_config.to_dict()) and setattr, outside
\* the try statement, then the try statement
SweepIteration(sw) ==
    IF ~StrategyConfigBound
    THEN [sw EXCEPT !.pc = "raised"]
    ELSE SweepOutcome(sw, sw.values[sw.idx + 1])

SweepStep ==
    /\ sweep.pc = "loop"
    /\ sweep.idx < Len(sweep.values)
    /\ sweep' = SweepIteration(sweep)
    /\ UNCHANGED <<enginevars, calc, other>>

\* return pd.DataFrame(results)
SweepReturn ==
    /\ sweep.pc = "loop"
    /\ sweep.idx = Len(sweep.values)
    /\ sweep' = [sweep EXCEPT !.pc = "returned"]
    /\ UNCHANGED <<enginevars, calc, other>>

InitSweep ==
    /\ EngineInit({<<BaseConfig, FALSE>>}, <<>>, <<>>)
    /\ \E vs \in SweepInputs :
           sweep = [values |-> vs, idx |-> 0, rows |-> <<>>, log |-> <<>>,
                    pc |-> "loop"]
    /\ calc = NoCall
    /\ other = NoOther

NextSweep == SweepStep \/ SweepReturn

SpecSweep == InitSweep /\ [][NextSweep]_vars

-----------------------------------------------------------------------------
(* A second run, of another engine with other parameter values, against the
   same store. Its fields are its own (BacktestEngine.__init__); what it
   shares with the first engine is the db object, so it appears here as the
   statements of its run() that write the store, in program order. *)

\* the trade the other run closes at the end of its period
OtherTrades ==
    <<[entry_date |-> 0, exit_date |-> 17, entry_price |-> 5, exit_price |-> 5,
       option_strike |-> 5, option_entry_premium |-> 1,
       option_exit_premium |-> 1, contracts |-> 1, pnl |-> 0,
       notes |-> ""]>>

\* the signals the other run records
OtherSignals ==
    <<Signal(0, "BUY", [contracts |-> 1, strike |-> 5, premium |-> 1]),
      Signal(17, "LIQUIDATE", [text |-> "End of backtest period"])>>

\* run(): self.db.clear_trades(); the other run starts before the first
\* has completed, so that the two overlap or the other comes first
OtherClearTrades ==
    /\ other.pc = "start"
    /\ phase \in {"idle", "running"}
    /\ db_trades' = <<>>
    /\ other' = [other EXCEPT !.pc = "cleared_trades"]
    /\ UNCHANGED db_signals

\* run(): self.db.clear_signals()
OtherClearSignals ==
    /\ other.pc = "cleared_trades"
    /\ db_signals' = <<>>
    /\ other' = [other EXCEPT !.pc = "running"]
    /\ UNCHANGED db_trades

\* close_all_positions at the end of the period: self.db.save_trade(...)
OtherSaveTrades ==
    /\ other.pc = "running"
    /\ db_trades' = db_trades \o OtherTrades
    /\ other' = [other EXCEPT !.pc = "closed"]
    /\ UNCHANGED db_signals

\* run(): for signal in self.signals: self.db.save_signal(...)
OtherSaveSignals ==
    /\ other.pc = "closed"
    /\ db_signals' = db_signals \o OtherSignals
    /\ other' = [other EXCEPT !.pc = "done"]
    /\ UNCHANGED db_trades

OtherRun ==
    /\ \/ OtherClearTrades
       \/ OtherClearSignals
       \/ OtherSaveTrades
       \/ OtherSaveSignals
    /\ UNCHANGED <<cfg, prices, tableLen, vixLoaded, vixRows, quotes, positions,
                   closed_positions, equity_curve, signals, cash, pause_buying,
                   days_above_200ma, phase, day, results, runs, first, last,
                   sweep, calc>>

ConcurrentSetups == {<<BaseConfig, FALSE>>}

InitConcurrent ==
    /\ EngineInit(ConcurrentSetups, <<>>, <<>>)
    /\ sweep = NoSweep
    /\ calc = NoCall
    /\ other = [pc |-> "start"]

NextConcurrent == Next \/ OtherRun

\* two runs against one store, their store operations interleaved
SpecConcurrent == InitConcurrent /\ [][NextConcurrent]_vars

-----------------------------------------------------------------------------
(* Calls of the functions of pricing.py on their own: one call, on any of
   the inputs, in a behaviour *)

\* get_strike_price(n / SpotDenominator, moneyness)
SelectStrike ==
    /\ calc = NoCall
    /\ \E n \in 1..MaxSpotUnits, m \in MoneynessSet :
           calc' = [op |-> "get_strike_price", n |-> n, d |-> SpotDenominator,
                    moneyness |-> m,
                    strike |-> StrikeOfFraction(n, SpotDenominator, m)]
    /\ UNCHANGED <<enginevars, sweep, other>>

\* black_scholes_call(S, K, T, r, sigma)
PriceCall ==
    /\ calc = NoCall
    /\ \E S \in 1..MaxSpot, K \in 1..MaxSpot, T \in ExpirySet,
          bs \in ClosedFormSet :
           calc' = [op |-> "black_scholes_call", spot |-> S, strike |-> K,
                    T |-> T, bs |-> bs,
                    price |-> black_scholes_call(S, K, T, bs)]
    /\ UNCHANGED <<enginevars, sweep, other>>

\* calculate_option_premium(spot, strike, days_to_expiry, r, historical_prices)
PriceContract ==
    /\ calc = NoCall
    /\ \E S \in 1..MaxSpot, K \in 1..MaxSpot, days \in ExpirySet,
          bs \in ClosedFormSet :
           calc' = [op |-> "calculate_option_premium", spot |-> S,
                    strike |-> K, T |-> days, bs |-> bs,
                    price |-> calculate_option_premium(S, K, days, bs)]
    /\ UNCHANGED <<enginevars, sweep, other>>

\* the positions the pricing calls are made on, entered on date 0
PricedPositions ==
    {NewPosition(0, K, K, 1, n, x) : K \in 1..MaxSpot, n \in 1..2,
                                     x \in ExpiryDates}

\* Position.mark_to_market(current_price, current_date, r, historical_prices)
MarkPosition ==
    /\ calc = NoCall
    /\ \E p \in PricedPositions, S \in 1..MaxSpot, d \in PricingDates,
          bs \in ClosedFormSet :
           LET t == <<[date |-> d, close |-> S]>>
               q == [entry |-> bs, mark |-> bs]
           IN  calc' = [op |-> "mark_to_market", spot |-> S,
                        strike |-> p.strike, T |-> p.expiry_date - d,
                        bs |-> bs, contracts |-> p.contracts,
                        value |-> mark_to_market(cfg, p, t, 1, q)]
    /\ UNCHANGED <<enginevars, sweep, other>>

\* close_all_positions(date, price, r, historical_prices, reason) on one
\* open position
ClosePosition ==
    /\ calc = NoCall
    /\ \E p \in PricedPositions, S \in 1..MaxSpot, d \in PricingDates,
          bs \in ClosedFormSet :
           LET t == <<[date |-> d, close |-> S]>>
               q == [entry |-> bs, mark |-> bs]
               e == [positions |-> <<p>>, closed_positions |-> <<>>,
                     cash |-> 0, signals |-> <<>>, db_trades |-> <<>>]
               r == close_all_positions(cfg, e, t, 1, q, "")
           IN  calc' = [op |-> "close_all_positions", spot |-> S,
                        strike |-> p.strike, T |-> p.expiry_date - d,
                        bs |-> bs, contracts |-> p.contracts,
                        entry_premium |-> p.entry_premium,
                        closed |-> r.closed_positions[1], cash |-> r.cash]
    /\ UNCHANGED <<enginevars, sweep, other>>

InitPricing ==
    /\ EngineInit({<<BaseConfig, FALSE>>}, <<>>, <<>>)
    /\ sweep = NoSweep
    /\ calc = NoCall
    /\ other = NoOther

NextPricing ==
    \/ SelectStrike
    \/ PriceCall
    \/ PriceContract
    \/ MarkPosition
    \/ ClosePosition

SpecPricing == InitPricing /\ [][NextPricing]_vars

-----------------------------------------------------------------------------
(* The liquidation predicate with the window lengths of the source, on the
   series of test_check_liquidate_condition *)

\* rolling(window=50), rolling(window=200)
Ma50Window == 50
Ma200Window == 200

\* [500] * 150 + list(np.linspace(500, 380, 150))
FlatDays == 150
DeclineDays == 150
FlatPrice == 500
LastPrice == 380

\* the closes of the series times DeclineDays - 1, which makes them integers:
\* linspace steps by (FlatPrice - LastPrice) / (DeclineDays - 1)
DeclineSeries ==
    [k \in 1..(FlatDays + DeclineDays) |->
        [date |-> k - 1,
         close |-> IF k <= FlatDays
                   THEN FlatPrice * (DeclineDays - 1)
                   ELSE FlatPrice * (DeclineDays - 1)
                            - (FlatPrice - LastPrice) * (k - FlatDays - 1)]]

\* StrategyConfig(liquidate_pct_from_peak=18.0, pause_lookback_days=100), the
\* other settings at their defaults
DeclineConfig ==
    [BaseConfig EXCEPT !.liquidate_pct_from_peak = 18,
                       !.pause_lookback_days = 100,
                       !.liquidate_pct_from_200ma = 15,
                       !.use_death_cross = FALSE]

\* check_liquidate_condition taking the drawdown since the first row in the
\* place of the drawdown from the rolling high
check_liquidate_condition_from_start(c, t, i, long, short) ==
    IF /\ Available(i, long)
       /\ (Close(t, i) * long - RollingSum(t, i, long)) * 100
              <= (0 - c.liquidate_pct_from_200ma) * RollingSum(t, i, long)
    THEN <<TRUE, "below 200-day MA">>
    ELSE IF (Close(t, i) - Close(t, 1)) * 100
                <= (0 - c.liquidate_pct_from_peak) * Close(t, 1)
    THEN <<TRUE, "drawdown from peak">>
    ELSE <<FALSE, "">>

\* check_liquidate_condition on row i of t, the averages taken over long and
\* short rows
check_liquidate_condition_over(c, t, i, long, short) ==
    IF /\ Available(i, long)
       /\ (Close(t, i) * long - RollingSum(t, i, long)) * 100
              <= (0 - c.liquidate_pct_from_200ma) * RollingSum(t, i, long)
    THEN <<TRUE, "below 200-day MA">>
    ELSE IF DrawdownAvailable(c, i)
            /\ DrawdownAtMost(c, t, i, c.liquidate_pct_from_peak)
    THEN <<TRUE, "drawdown from peak">>
    ELSE IF /\ c.use_death_cross
            /\ Available(i, short)
            /\ Available(i, long)
            /\ RollingSum(t, i, short) * long < RollingSum(t, i, long) * short
    THEN <<TRUE, "death cross">>
    ELSE <<FALSE, "">>

\* the predicate is evaluated on a row of the series
CheckLiquidate ==
    /\ calc = NoCall
    /\ \E i \in 1..Len(DeclineSeries) :
           calc' = [op |-> "check_liquidate_condition", row |-> i,
                    result |-> check_liquidate_condition_over(
                                   DeclineConfig, DeclineSeries, i,
                                   Ma200Window, Ma50Window),
                    drawdown_passed |->
                        /\ DrawdownAvailable(DeclineConfig, i)
                        /\ DrawdownAtMost(DeclineConfig, DeclineSeries, i,
                                          DeclineConfig.liquidate_pct_from_peak)]
    /\ UNCHANGED <<enginevars, sweep, other>>

InitDecline ==
    /\ EngineInit({<<DeclineConfig, FALSE>>}, <<>>, <<>>)
    /\ sweep = NoSweep
    /\ calc = NoCall
    /\ other = NoOther

NextDecline == CheckLiquidate

SpecDecline == InitDecline /\ [][NextDecline]_vars

\* every value the engine holds is one the code can produce
TypeOK ==
    /\ \A k \in 1..Len(positions) :
        positions[k].entry_premium >= 0 /\ positions[k].contracts >= 1
    /\ \A k \in 1..Len(closed_positions) : closed_positions[k].exit_premium >= 0
    /\ phase \in {"idle", "running", "done", "failed"}

(* ---------------- What the properties speak about ---------------- *)

\* the last step was an iteration of the loop of run()
DayDone == last.kind = "day"

\* the date of the row the last iteration processed
Today == prices[day].date

\* the signals the last step recorded
NewSignals == SubSeq(signals, last.signals + 1, Len(signals))

\* the positions the last step closed
NewlyClosed == SubSeq(closed_positions, last.closed + 1, Len(closed_positions))

\* the signals of s whose type is in types
OfType(s, types) == {k \in 1..Len(s) : s[k].signal_type \in types}

\* should_liquidate of the row the last iteration processed
ShouldLiquidate == check_liquidate_condition(cfg, prices, day)[1]

\* the engine was ACTIVE when the last iteration reached step 4
ActiveAtStep4 == ~last.was_paused \/ last.resumed

\* the cap on the cost basis of the open positions, times 100
ExposureCap == cfg.max_exposure_pct * cfg.initial_capital

\* the entry cost of the positions of ps, open or closed
EntryCost(ps) == CostBasis(ps)

(* ---------------- C1 ---------------- *)

\* C1: cash is never negative: after every iteration of run(), and after the
\* end-of-run close, cash >= 0; a purchase whose total cost exceeds the cash
\* is refused.
C1_CashNonNegative ==
    /\ cash >= 0
    /\ (DayDone /\ last.outcome = "bought") =>
           /\ last.cash >= EntryCost(<<positions[Len(positions)]>>)
           /\ cash = last.cash - EntryCost(<<positions[Len(positions)]>>)
    /\ (DayDone /\ last.outcome = "no_cash") =>
           /\ cash = last.cash
           /\ positions = last.positions

\* a purchase was refused for lack of cash, after money had been spent
C1_Witness ==
    /\ DayDone
    /\ last.outcome = "no_cash"
    /\ cash < cfg.initial_capital
    /\ cash > 0

(* ---------------- C2 ---------------- *)

\* C2: when run() has completed, no position is open: every position that was
\* opened has been closed, with an exit date. What was open after the last
\* iteration was closed at the last row by close_all_positions, with a
\* LIQUIDATE signal of reason 'End of backtest period', its exit premiums
\* credited to cash and its trades saved, whether the engine was ACTIVE or
\* PAUSED.
C2_AllClosedAtEnd ==
    phase = "done" =>
        /\ positions = <<>>
        /\ \A k \in 1..Len(closed_positions) :
               closed_positions[k].exit_date # None
        /\ Len(closed_positions) = Cardinality(OfType(signals, {"BUY"}))
        /\ Len(NewlyClosed) = Len(last.positions)
        /\ \A k \in 1..Len(last.positions) :
               /\ NewlyClosed[k].exit_date = Today
               /\ NewlyClosed[k].exit_price = Close(prices, day)
               /\ NewlyClosed[k].entry_date = last.positions[k].entry_date
               /\ NewlyClosed[k].contracts = last.positions[k].contracts
               /\ db_trades[Len(db_trades) - Len(last.positions) + k]
                      = to_dict(NewlyClosed[k])
        /\ cash = last.cash + Proceeds(NewlyClosed)
        /\ IF last.positions # <<>>
           THEN NewSignals = <<Signal(Today, "LIQUIDATE",
                                      [text |-> "End of backtest period"])>>
           ELSE NewSignals = <<>>

\* a run ended PAUSED with positions open, and they were closed
C2_Witness ==
    /\ phase = "done"
    /\ last.positions # <<>>
    /\ last.was_paused
    /\ positions = <<>>

(* ---------------- C3 ---------------- *)

\* C3: the P&L of every closed position is
\* (exit_premium - entry_premium) * contracts * 100, with the exit premium and
\* the contracts that were credited to cash when it was closed.
C3_ClosedPnl ==
    /\ \A k \in 1..Len(closed_positions) :
           LET p == closed_positions[k]
           IN  p.pnl = (p.exit_premium - p.entry_premium) * p.contracts
                           * ContractMultiplier
    /\ (last.kind \in {"day", "finish"} /\ NewlyClosed # <<>>) =>
           cash = last.cash
                    + SumSeq([k \in 1..Len(NewlyClosed) |->
                                 NewlyClosed[k].exit_premium
                                     * NewlyClosed[k].contracts
                                     * ContractMultiplier])

\* two contracts of one position were closed at a gain
C3_Witness ==
    /\ last.kind \in {"day", "finish"}
    /\ \E k \in 1..Len(NewlyClosed) :
           NewlyClosed[k].contracts > 1 /\ NewlyClosed[k].pnl > 0

(* ---------------- C4 ---------------- *)

\* the cost of the purchase the last iteration attempted
AttemptedCost ==
    LET premium == calculate_option_premium(Close(prices, day),
                       get_strike_price(Close(prices, day), cfg.strike_moneyness),
                       EntryPricingDays, quotes[day].entry)
    IN  ContractsFor(cfg, premium) * premium * ContractMultiplier

C4_ClosedDoNotCount ==
    /\ DayDone
    /\ last.outcome = "bought"
    /\ (EntryCost(closed_positions) + CostBasis(positions)) * 100 > ExposureCap

(* ---------------- C5 ---------------- *)

\* C5: on a day on which should_liquidate is true and a position is open,
\* every open position is closed at that day's date and price, exactly one
\* signal is recorded, a LIQUIDATE with the reason of the check, the engine is
\* PAUSED, and nothing else happens that day: no resume check (the counter of
\* days above the long average is untouched), no pause check, no purchase.
C5_LiquidationDay ==
    (DayDone /\ ShouldLiquidate /\ last.positions # <<>>) =>
        /\ last.step = "liquidate"
        /\ positions = <<>>
        /\ Len(NewlyClosed) = Len(last.positions)
        /\ \A k \in 1..Len(NewlyClosed) :
               /\ NewlyClosed[k].exit_date = Today
               /\ NewlyClosed[k].exit_price = Close(prices, day)
               /\ NewlyClosed[k].entry_date = last.positions[k].entry_date
        /\ cash = last.cash + Proceeds(NewlyClosed)
        /\ NewSignals = <<Signal(Today, "LIQUIDATE",
                            [text |-> check_liquidate_condition(cfg, prices, day)[2]])>>
        /\ pause_buying
        /\ ~last.resumed
        /\ last.outcome = "none"
        /\ days_above_200ma = last.counter
        /\ first = <<>> => vixRows[day] = Unset

\* a liquidation of an engine that was already PAUSED
C5_Witness ==
    /\ DayDone
    /\ ShouldLiquidate
    /\ last.step = "liquidate"
    /\ last.was_paused

\* a liquidation on a buy day of an ACTIVE engine
C5_WitnessBuyDay ==
    /\ DayDone
    /\ last.step = "liquidate"
    /\ ~last.was_paused
    /\ is_buy_day(cfg, Today)

(* ---------------- C6 ---------------- *)

\* C6: on a day on which should_liquidate is true and no position is open,
\* the liquidation step does nothing: no LIQUIDATE signal, no position closed,
\* no change of state by that step. The rest of the day runs as on any other:
\* the resume check of a PAUSED engine, and on a buy day of an ACTIVE engine
\* the pause check and the purchase.
C6_NothingToLiquidate ==
    (DayDone /\ ShouldLiquidate /\ last.positions = <<>>) =>
        /\ last.step # "liquidate"
        /\ OfType(NewSignals, {"LIQUIDATE"}) = {}
        /\ NewlyClosed = <<>>
        /\ last.resumed <=> (last.was_paused /\
               check_resume_condition(cfg, prices, day, last.counter).resume)
        /\ (is_buy_day(cfg, Today) /\ ActiveAtStep4) <=> last.step \in {"pause", "buy"}
        /\ pause_buying <=> (IF last.step = "pause" THEN TRUE
                             ELSE IF last.resumed THEN FALSE
                             ELSE last.was_paused)
        /\ last.outcome = "bought" =>
               /\ Len(positions) = 1
               /\ cash = last.cash - AttemptedCost

\* a position was bought on a day on which should_liquidate was true
C6_Witness ==
    /\ DayDone
    /\ ShouldLiquidate
    /\ last.positions = <<>>
    /\ last.outcome = "bought"

(* ---------------- C7 ---------------- *)

\* should_resume of the row the last iteration processed, with the counter
\* the iteration started from
ShouldResume == check_resume_condition(cfg, prices, day, last.counter)

\* C7: on a day that starts PAUSED and on which no liquidation is executed,
\* if should_resume is true the engine becomes ACTIVE and records one RESUME
\* signal, the first signal of the day, and step 4 runs the same day: on a
\* buy day the pause check is made and either a PAUSE is recorded or a
\* purchase is attempted. A RESUME is recorded only by an engine that was
\* PAUSED.
C7_ResumeDay ==
    DayDone =>
        /\ (last.was_paused /\ last.step # "liquidate" /\ ShouldResume.resume) =>
               /\ last.resumed
               /\ NewSignals # <<>>
               /\ NewSignals[1] = Signal(Today, "RESUME",
                                         [text |-> ShouldResume.reason])
               /\ Cardinality(OfType(NewSignals, {"RESUME"})) = 1
               /\ IF is_buy_day(cfg, Today)
                  THEN /\ last.step \in {"pause", "buy"}
                       /\ last.step = "pause" <=>
                              check_pause_condition(cfg, prices, day, vixLoaded,
                                                    vixRows[day])[1]
                       /\ last.step = "pause" =>
                              /\ pause_buying
                              /\ NewSignals[Len(NewSignals)].signal_type = "PAUSE"
                       /\ last.step = "buy" =>
                              /\ ~pause_buying
                              /\ last.outcome \in {"bought", "max_exposure", "no_cash"}
                  ELSE /\ last.step = "none"
                       /\ ~pause_buying
        /\ OfType(NewSignals, {"RESUME"}) # {} =>
               /\ last.was_paused
               /\ last.resumed
               /\ ShouldResume.resume
        /\ last.resumed => (last.was_paused /\ last.step # "liquidate")

\* a position was bought on the day the engine resumed
C7_Witness ==
    /\ DayDone
    /\ last.was_paused
    /\ last.resumed
    /\ last.outcome = "bought"
    /\ Len(positions) = Len(last.positions) + 1

\* the engine resumed and was paused again the same day
C7_WitnessPausedAgain ==
    /\ DayDone
    /\ last.resumed
    /\ last.step = "pause"

(* ---------------- C8 ---------------- *)

\* should_pause of the row the last iteration processed
ShouldPause == check_pause_condition(cfg, prices, day, vixLoaded, vixRows[day])

\* C8: should_pause is evaluated only on buy days while the engine is ACTIVE:
\* a PAUSE is recorded only there, and only there is the VIX row of the day
\* read. When it is true the engine becomes PAUSED and records one PAUSE
\* signal, no position is opened, and cash, the open positions and the closed
\* positions are what they were.
C8_PauseDay ==
    DayDone =>
        /\ last.step = "pause" =>
               /\ is_buy_day(cfg, Today)
               /\ ActiveAtStep4
               /\ ShouldPause[1]
               /\ pause_buying
               /\ NewSignals[Len(NewSignals)] = Signal(Today, "PAUSE",
                                                       [text |-> ShouldPause[2]])
               /\ Cardinality(OfType(NewSignals, {"PAUSE"})) = 1
               /\ OfType(NewSignals, {"BUY", "MAX_EXPOSURE", "LIQUIDATE"}) = {}
               /\ last.outcome = "none"
               /\ positions = last.positions
               /\ cash = last.cash
               /\ Len(closed_positions) = last.closed
        /\ (is_buy_day(cfg, Today) /\ ActiveAtStep4 /\ last.step # "liquidate"
                /\ ShouldPause[1]) => last.step = "pause"
        /\ OfType(NewSignals, {"PAUSE"}) # {} => last.step = "pause"
        /\ (first = <<>> /\ vixRows[day] # Unset) =>
               /\ is_buy_day(cfg, Today)
               /\ ActiveAtStep4
               /\ last.step \in {"pause", "buy"}

\* a pause with positions open, which stay open
C8_Witness ==
    /\ DayDone
    /\ last.step = "pause"
    /\ last.positions # <<>>
    /\ positions = last.positions

\* a pause by the VIX row of the day
C8_WitnessVix ==
    /\ DayDone
    /\ last.step = "pause"
    /\ ShouldPause[2] = "vix"

(* ---------------- C9 ---------------- *)

\* the last PAUSE, LIQUIDATE or RESUME before signal k of the log, 0 if none
LastTransition(k) ==
    LET before == {j \in OfType(signals, {"PAUSE", "LIQUIDATE", "RESUME"}) : j < k}
    IN  IF before = {} THEN 0
        ELSE CHOOSE j \in before : \A h \in before : h <= j

\* C9: buying is permitted only in the ACTIVE state, the state in which every
\* run starts: a BUY or MAX_EXPOSURE signal is recorded, and a position
\* opened, only on a buy day, and only when the last PAUSE, LIQUIDATE or
\* RESUME recorded before it, if any, is a RESUME.
C9_BuyOnlyWhenActive ==
    /\ last.kind = "start" => ~pause_buying
    /\ \A k \in OfType(signals, {"BUY", "MAX_EXPOSURE"}) :
           /\ is_buy_day(cfg, signals[k].date)
           /\ LastTransition(k) # 0 =>
                  signals[LastTransition(k)].signal_type = "RESUME"
    /\ \A k \in 1..Len(positions) :
           \E j \in OfType(signals, {"BUY"}) :
               signals[j].date = positions[k].entry_date
    /\ \A k \in 1..Len(closed_positions) :
           \E j \in OfType(signals, {"BUY"}) :
               signals[j].date = closed_positions[k].entry_date
    /\ Len(positions) + Len(closed_positions)
           = Cardinality(OfType(signals, {"BUY"}))
    /\ DayDone =>
           /\ last.outcome # "none" => (is_buy_day(cfg, Today) /\ ActiveAtStep4)
           /\ (~is_buy_day(cfg, Today) \/ pause_buying) =>
                  Len(positions) <= Len(last.positions)

\* a position bought after a liquidation and the resume that followed it
C9_WitnessAfterResume ==
    \E k \in OfType(signals, {"BUY"}) :
        /\ LastTransition(k) # 0
        /\ \E j \in OfType(signals, {"LIQUIDATE"}) : j < LastTransition(k)

\* a buy day passed while PAUSED on which nothing called for a pause, and
\* nothing was bought
C9_Witness ==
    /\ DayDone
    /\ is_buy_day(cfg, Today)
    /\ last.was_paused
    /\ ~last.resumed
    /\ last.step = "none"
    /\ ~PauseByDrawdown(cfg, prices, day)
    /\ OfType(signals, {"PAUSE", "LIQUIDATE"}) # {}

(* ---------------- C10 ---------------- *)

\* the second run has completed
SecondRunDone == phase = "done" /\ runs = MaxRuns /\ first # <<>>

\* the metrics, the trade records and the signal logs are those of the first run
SameAsFirstRun ==
    /\ results = <<first[1].results>>
    /\ db_trades = first[1].trades
    /\ signals = first[1].signals
    /\ db_signals = first[1].store_signals

\* C10: a second run of the same configuration over the same price history
\* gives the metrics, the trade records and the signal logs of the first,
\* whether it is made by a new engine or by a second call of run() on the
\* engine of the first.
C10_Idempotent == SecondRunDone => SameAsFirstRun

\* C10, new engine only: a second run by a newly constructed engine gives
\* the metrics, the trade records and the signal logs of the first.
C10_IdempotentNewEngine == (SecondRunDone /\ first[1].fresh) => SameAsFirstRun

\* a new engine has repeated a run that paused, resumed and traded
C10_WitnessNewEngine ==
    /\ SecondRunDone
    /\ first[1].fresh
    /\ OfType(signals, {"RESUME"}) # {}
    /\ db_trades # <<>>

\* run() has been called a second time on the same engine
C10_WitnessSameEngine == SecondRunDone /\ ~first[1].fresh

(* ---------------- C11 ---------------- *)

\* the row of the series that has the given date
RowOf(date) == CHOOSE i \in 1..Len(prices) : prices[i].date = date

\* the price closed above the long moving average on each of the n rows
\* that end with row d
AboveOnEachOf(d, n) ==
    \A j \in (d - n + 1)..d :
        j >= 1 /\ Ma200Available(j) /\ AboveMa200(prices, j)

\* C11: within a run, a RESUME by the moving-average rule is recorded on day
\* d only if the price closed above the long moving average on each of the
\* resume_consec_days consecutive days of the series that end with d; the
\* counter is zero after every day on which the price closes at or below
\* the average, whatever the engine did that day, and zero after a resume.
C11_ConsecutiveDaysAbove ==
    /\ \A k \in OfType(signals, {"RESUME"}) :
           signals[k].details.text = "above 200-day MA" =>
               AboveOnEachOf(RowOf(signals[k].date), cfg.resume_consec_days)
    /\ (DayDone /\ Ma200Available(day) /\ ~AboveMa200(prices, day)) =>
           days_above_200ma = 0
    /\ (DayDone /\ last.resumed) => days_above_200ma = 0

\* C11, the recorded signal alone: a RESUME by the moving-average rule has
\* resume_consec_days consecutive closes above the average behind it
C11_ResumeHasDaysBehindIt ==
    \A k \in OfType(signals, {"RESUME"}) :
        signals[k].details.text = "above 200-day MA" =>
            AboveOnEachOf(RowOf(signals[k].date), cfg.resume_consec_days)

\* a RESUME by the moving-average rule has been recorded
C11_Witness ==
    \E k \in OfType(signals, {"RESUME"}) :
        signals[k].details.text = "above 200-day MA"

(* ---------------- C12 ---------------- *)

\* the reasons of the signals the last step recorded with one of the types
ReasonsOf(types) == {NewSignals[k].details.text : k \in OfType(NewSignals, types)}

\* C12: an indicator that is unavailable for lack of trailing history
\* triggers nothing. While the long average is unavailable no liquidation is
\* by the distance from it or by the death cross, no resume is by the days
\* above it, and the counter of those days is what it was; while the
\* rolling peak is unavailable no pause, liquidation or resume is by the
\* drawdown. With no VIX table, a day on which both are unavailable records
\* no PAUSE, LIQUIDATE or RESUME and leaves the pause state and the counter
\* unchanged.
C12_UnavailableIndicators ==
    DayDone =>
        /\ ~Ma200Available(day) =>
               /\ ReasonsOf({"LIQUIDATE"}) \cap {"below 200-day MA", "death cross"} = {}
               /\ "above 200-day MA" \notin ReasonsOf({"RESUME"})
               /\ ~death_cross(prices, day)
               /\ days_above_200ma = last.counter
        /\ ~DrawdownAvailable(cfg, day) =>
               /\ "drawdown" \notin ReasonsOf({"PAUSE"})
               /\ "drawdown from peak" \notin ReasonsOf({"LIQUIDATE"})
               /\ "drawdown recovered" \notin ReasonsOf({"RESUME"})
        /\ (~Ma200Available(day) /\ ~DrawdownAvailable(cfg, day) /\ ~vixLoaded) =>
               /\ ~ShouldLiquidate
               /\ ~ShouldPause[1]
               /\ ~ShouldResume.resume
               /\ OfType(NewSignals, {"PAUSE", "LIQUIDATE", "RESUME"}) = {}
               /\ pause_buying = last.was_paused
               /\ days_above_200ma = last.counter

\* a day with positions open on which no indicator was available, and
\* nothing was liquidated
C12_Witness ==
    /\ DayDone
    /\ ~Ma200Available(day)
    /\ ~DrawdownAvailable(cfg, day)
    /\ ~vixLoaded
    /\ last.positions # <<>>
    /\ positions = last.positions

\* a PAUSED engine made its resume check on a day on which the rolling peak
\* was unavailable and the long average was not
C12_WitnessPaused ==
    /\ DayDone
    /\ last.was_paused
    /\ last.step # "liquidate"
    /\ Ma200Available(day)
    /\ ~DrawdownAvailable(cfg, day)

\* a buy day on which no indicator was available, and a position was bought
C12_WitnessBuyDay ==
    /\ DayDone
    /\ ~Ma200Available(day)
    /\ ~DrawdownAvailable(cfg, day)
    /\ last.outcome = "bought"

(* ---------------- C13 ---------------- *)

\* C13: the equity curve holds exactly one sample per processed day of the
\* price series, in the order of the series, liquidation days included, and
\* the metrics return that curve; the signal log is in non-decreasing order
\* of date, the end-of-run LIQUIDATE included, and each step only appends to
\* it.
C13_OrderedLogs ==
    /\ phase \in {"running", "done"} =>
           /\ Len(equity_curve) = day
           /\ \A i \in 1..day :
                  /\ equity_curve[i].date = prices[i].date
                  /\ equity_curve[i].spy_price = prices[i].close
    /\ phase = "done" =>
           /\ Len(equity_curve) = tableLen
           /\ results[1].equity_curve = equity_curve
           /\ \A k \in 1..Len(signals) : signals[k].date <= Today
    /\ \A k \in 1..(Len(signals) - 1) : signals[k].date <= signals[k + 1].date
    /\ last.kind \in {"day", "finish"} =>
           /\ Len(signals) >= last.signals
           /\ \A k \in 1..Len(NewSignals) : NewSignals[k].date = Today

\* a completed run with a liquidation before its last day, two signals of
\* one date, and the end-of-run LIQUIDATE
C13_Witness ==
    /\ phase = "done"
    /\ \E k \in OfType(signals, {"LIQUIDATE"}) : signals[k].date < Today
    /\ \E k \in 1..(Len(signals) - 1) : signals[k].date = signals[k + 1].date
    /\ signals[Len(signals)].details = [text |-> "End of backtest period"]

(* ---------------- C14 ---------------- *)

\* the trade records of the closed positions, in the order they were closed
OwnTrades == [k \in 1..Len(closed_positions) |-> to_dict(closed_positions[k])]

\* C14: after a successful run the store holds exactly the records of that
\* run: one trade record per closed position and one signal record per
\* recorded signal, in the order of recording. The records of earlier runs
\* are gone before the first day is processed.
C14_StoreHoldsThisRun ==
    /\ phase = "running" =>
           /\ db_trades = OwnTrades
           /\ db_signals = <<>>
    /\ phase = "done" =>
           /\ db_trades = OwnTrades
           /\ db_signals = signals
           /\ Len(db_trades) = Len(closed_positions)
           /\ Len(db_signals) = Len(signals)

\* a run that closed two positions and recorded at least three signals
\* has completed over a store that held the records of an earlier run
C14_Witness ==
    /\ phase = "done"
    /\ Len(db_trades) >= 2
    /\ Len(db_signals) >= 3
    /\ db_trades[1] # StaleTrades[1]

(* ---------------- C15 ---------------- *)

\* C15: a run() that finds the price history empty fails and returns no
\* metrics, and the step that fails changes nothing: not the trade and
\* signal records of the store, not the engine's cash, positions, closed
\* positions, equity curve or signal log.
C15_EmptyHistoryFails ==
    [][phase' = "failed" =>
          /\ tableLen' = 0
          /\ results' = <<>>
          /\ UNCHANGED <<db_trades, db_signals, cash, positions,
                         closed_positions, equity_curve, signals,
                         pause_buying>>]_vars

\* run() has failed over a store that holds the records of an earlier run
C15_Witness ==
    /\ phase = "failed"
    /\ last.kind = "fail"
    /\ db_trades = StaleTrades
    /\ db_signals = StaleSignals
    /\ results = <<>>

(* ---------------- C16 ---------------- *)

\* the values of the sweep whose backtest returns, as result rows
RowsOfSucceeding ==
    LET ok == SelectSeq([k \in 1..Len(sweep.values) |->
                            [Value |-> k, fails |-> sweep.values[k]]],
                        LAMBDA v : ~v.fails)
    IN  [k \in 1..Len(ok) |-> [Value |-> ok[k].Value]]

\* C16: a sweep ends by returning its rows, exactly one for every parameter
\* value whose backtest succeeds, in the order of the values, whatever the
\* other values do: a value whose backtest fails is logged and left out.
C16_SweepIsolatesFailures ==
    sweep.pc \in {"returned", "raised"} =>
        /\ sweep.pc = "returned"
        /\ sweep.rows = RowsOfSucceeding
        /\ Len(sweep.log) + Len(sweep.rows) = Len(sweep.values)

\* a sweep over values of which some succeed and some fail has ended
C16_Witness ==
    /\ sweep.pc \in {"returned", "raised"}
    /\ \E j, k \in 1..Len(sweep.values) : sweep.values[j] /\ ~sweep.values[k]

(* ---------------- C17 ---------------- *)

\* the records of the store that are not the other run's
NotOthers(table, others) ==
    SelectSeq(table, LAMBDA r : \A k \in 1..Len(others) : r # others[k])

\* C17: two runs with different parameter values against the same store
\* share nothing but the price history: however their steps interleave, a
\* completed run has the metrics of its own equity curve and closed
\* positions, holds no position, and the trade and signal records it leaves
\* in the store are the ones it leaves when it runs alone, one per closed
\* position and one per recorded signal, in order.
C17_RunsShareNothing ==
    phase = "done" =>
        /\ positions = <<>>
        /\ results = <<calculate_metrics(cfg, equity_curve, closed_positions)>>
        /\ NotOthers(db_trades, OtherTrades) = OwnTrades
        /\ NotOthers(db_signals, OtherSignals) = signals

\* both runs have completed, and the first closed a position
C17_Witness ==
    /\ phase = "done"
    /\ other.pc = "done"
    /\ closed_positions # <<>>

(* ---------------- C18 ---------------- *)

\* should_pause is evaluated on the day just processed
PauseChecked == is_buy_day(cfg, Today) /\ ActiveAtStep4 /\ last.step # "liquidate"

\* the VIX series has no close for the day: it was not loaded, or it has no
\* row for the date
NoVixToday == ~vixLoaded \/ vixRows[day] \in {NoRow, Unset}

\* C18: when the VIX series is unavailable (loading failed, the series is
\* empty or has no row for the day) the run does not fail, and on a day where
\* should_pause is evaluated the engine pauses exactly when the drawdown rule
\* says so; a PAUSE is recorded for the VIX rule only when the loaded series
\* has a close for the date and the close exceeds vix_threshold.
C18_VixUnavailable ==
    /\ phase = "failed" => tableLen = 0 /\ day = 0
    /\ DayDone =>
        /\ (PauseChecked /\ NoVixToday) =>
               /\ last.step = "pause" <=> PauseByDrawdown(cfg, prices, day)
               /\ last.step = "pause" =>
                      NewSignals[Len(NewSignals)].details.text = "drawdown"
               /\ last.step \in {"pause", "buy"}
        /\ (last.step = "pause"
                /\ NewSignals[Len(NewSignals)].details.text = "vix") =>
               /\ vixLoaded
               /\ vixRows[day] \in VixSet
               /\ vixRows[day] > cfg.vix_threshold
               /\ ~PauseByDrawdown(cfg, prices, day)

\* the loaded VIX series has no row for a buy day, and a position is bought
C18_Witness ==
    /\ DayDone
    /\ vixLoaded
    /\ vixRows[day] = NoRow
    /\ PauseChecked
    /\ last.step = "buy"
    /\ Len(positions) > Len(last.positions)

\* loading the VIX series failed and the drawdown rule pauses the engine
C18_WitnessNotLoaded ==
    /\ DayDone
    /\ ~vixLoaded
    /\ PauseChecked
    /\ last.step = "pause"

\* the loaded VIX series has no row for any day of a completed run of four
\* days: the series is empty
C18_WitnessEmpty ==
    /\ phase = "done"
    /\ vixLoaded
    /\ day = MaxDays
    /\ \A i \in 1..day : vixRows[i] \in {NoRow, Unset}
    /\ \E i \in 1..day : vixRows[i] = NoRow

(* ---------------- C19 ---------------- *)

\* the last call was get_strike_price
StrikeSelected == calc.op = "get_strike_price"

\* the strike of the last call is above, below the spot price n / d
StrikeAbove == calc.strike * calc.d > calc.n
StrikeBelow == calc.strike * calc.d < calc.n

\* the strike of the last call is within one strike spacing of the spot price
StrikeNearSpot ==
    /\ calc.strike * calc.d - calc.n <= calc.d
    /\ calc.n - calc.strike * calc.d <= calc.d

\* C19 as stated: for every positive spot price, with strike spacing 1.0, the
\* strike for moneyness 0 is within one spacing of the spot, the strike for
\* +5 is strictly above the spot and the strike for -5 strictly below it.
C19_StrikeAroundSpot ==
    StrikeSelected =>
        /\ calc.moneyness = 0 => StrikeNearSpot
        /\ calc.moneyness = 5 => StrikeAbove
        /\ calc.moneyness = 0 - 5 => StrikeBelow

\* C19, amended: the strike for moneyness 0 is within one spacing (within
\* half a spacing) of every positive spot; the strike for +5 is strictly
\* above and the strike for -5 strictly below every spot greater than 10,
\* where 5 % of the spot exceeds half a spacing; in every case the strike is
\* the multiple of the spacing nearest to spot x (1 + moneyness / 100).
C19_StrikeAroundSpotAbove10 ==
    StrikeSelected =>
        /\ calc.moneyness = 0 =>
               /\ StrikeNearSpot
               /\ 2 * (calc.strike * calc.d - calc.n) <= calc.d
               /\ 2 * (calc.n - calc.strike * calc.d) <= calc.d
        /\ (calc.moneyness = 5 /\ calc.n > 10 * calc.d) => StrikeAbove
        /\ (calc.moneyness = 0 - 5 /\ calc.n > 10 * calc.d) => StrikeBelow
        /\ 2 * (calc.strike * 100 * calc.d - calc.n * (100 + calc.moneyness))
               <= 100 * calc.d
        /\ 2 * (calc.n * (100 + calc.moneyness) - calc.strike * 100 * calc.d)
               <= 100 * calc.d

\* the strike for +5 of a spot above 10 whose target lies halfway between
\* two strikes: spot 30, target 31.5, strike 32
C19_Witness ==
    /\ StrikeSelected
    /\ calc.moneyness = 5
    /\ calc.n = 30 * calc.d
    /\ calc.strike = 32

\* the strike for +5 of the spot 10 is 10, the target 10.5 going to the even
\* neighbour
C19_WitnessAt10 ==
    /\ StrikeSelected
    /\ calc.moneyness = 5
    /\ calc.n = 10 * calc.d
    /\ calc.strike = 10

(* ---------------- C20 ---------------- *)

\* the last call priced a call with no time left to expiry
NoTimeLeft ==
    /\ calc.op \in {"black_scholes_call", "calculate_option_premium",
                    "mark_to_market", "close_all_positions"}
    /\ calc.T <= 0

\* max(spot - strike, 0) of the last call
IntrinsicOfCall ==
    IF calc.spot > calc.strike THEN calc.spot - calc.strike ELSE 0

\* C20: with time to expiry <= 0 the price of a call is exactly its intrinsic
\* value max(spot - strike, 0), whatever the spot, the strike and the value
\* the closed form would take from rate, volatility and price history: in
\* black_scholes_call, in calculate_option_premium, and when a position past
\* its expiry date is marked to market (its value is the intrinsic value
\* times contracts times 100) or closed (its exit premium is the intrinsic
\* value).
C20_IntrinsicAtExpiry ==
    NoTimeLeft =>
        /\ calc.op \in {"black_scholes_call", "calculate_option_premium"} =>
               calc.price = IntrinsicOfCall
        /\ calc.op = "mark_to_market" =>
               calc.value = IntrinsicOfCall * calc.contracts * ContractMultiplier
        /\ calc.op = "close_all_positions" =>
               /\ calc.closed.exit_premium = IntrinsicOfCall
               /\ calc.closed.pnl = (IntrinsicOfCall - calc.entry_premium)
                                        * calc.contracts * ContractMultiplier
               /\ calc.cash = IntrinsicOfCall * calc.contracts * ContractMultiplier

\* a contract in the money is priced on its expiry day, where the closed
\* form would give another value
C20_Witness ==
    /\ calc.op = "calculate_option_premium"
    /\ calc.T = 0
    /\ calc.spot > calc.strike
    /\ calc.bs # IntrinsicOfCall
    /\ calc.price = IntrinsicOfCall

\* a position in the money is closed after its expiry date
C20_WitnessClosed ==
    /\ calc.op = "close_all_positions"
    /\ calc.T < 0
    /\ calc.spot > calc.strike
    /\ calc.bs # IntrinsicOfCall
    /\ calc.closed.exit_premium = IntrinsicOfCall

\* a position out of the money is marked to market on its expiry day
C20_WitnessMarked ==
    /\ calc.op = "mark_to_market"
    /\ calc.T = 0
    /\ calc.spot < calc.strike
    /\ calc.bs > 0
    /\ calc.value = 0

\* black_scholes_call is called with T = 0
C20_WitnessCall ==
    /\ calc.op = "black_scholes_call"
    /\ calc.T = 0
    /\ calc.bs # IntrinsicOfCall
    /\ calc.price = IntrinsicOfCall

(* ---------------- C21 ---------------- *)

\* the log holds a MAX_EXPOSURE signal
MaxExposureRecorded == OfType(signals, {"MAX_EXPOSURE"}) # {}

\* the last iteration attempted a buy: a buy day, ACTIVE, not liquidated,
\* not paused
BuyAttempted == DayDone /\ last.step = "buy"

\* C21 as stated: with max_exposure_pct = 5, weekly_amount = 10000 and
\* initial_capital = 100000, once a buy is attempted on a buy day reached in
\* the ACTIVE state the run eventually records a MAX_EXPOSURE signal, and the
\* cost basis of the open positions never exceeds 5 % of the capital.
C21_MaxExposureEventually ==
    /\ [](CostBasis(positions) * 100 <= ExposureCap)
    /\ BuyAttempted ~> MaxExposureRecorded

\* C21, amended: the cost basis of the open positions never exceeds 5 % of
\* the capital, and no position of positive cost is ever opened; a buy
\* attempt whose order cost is positive and within the cash records a
\* MAX_EXPOSURE signal and nothing else; an attempt whose order cost exceeds
\* the cash records nothing; an attempt at premium 0 buys one contract for
\* nothing.
C21_ExposureRule ==
    /\ CostBasis(positions) * 100 <= ExposureCap
    /\ CostBasis(positions) = 0
    /\ BuyAttempted =>
        /\ (AttemptedCost > 0 /\ AttemptedCost <= last.cash) =>
               /\ last.outcome = "max_exposure"
               /\ Len(NewSignals) >= 1
               /\ NewSignals[Len(NewSignals)].signal_type = "MAX_EXPOSURE"
               /\ OfType(NewSignals, {"BUY"}) = {}
               /\ positions = last.positions
        /\ AttemptedCost > last.cash =>
               /\ last.outcome = "no_cash"
               /\ OfType(NewSignals, {"BUY", "MAX_EXPOSURE"}) = {}
               /\ positions = last.positions
        /\ AttemptedCost = 0 =>
               /\ last.outcome = "bought"
               /\ cash = last.cash

\* the second weekly buy of a run is refused at the cap, as the first was
C21_Witness ==
    /\ BuyAttempted
    /\ last.outcome = "max_exposure"
    /\ Cardinality(OfType(signals, {"MAX_EXPOSURE"})) = 2

\* a run has completed whose buy attempts all exceeded the cash: nothing
\* was bought and no MAX_EXPOSURE signal was recorded
C21_WitnessNoCash ==
    /\ phase = "done"
    /\ ~MaxExposureRecorded
    /\ OfType(signals, {"BUY"}) = {}
    /\ cfg.initial_capital = 60
    /\ day >= 3

(* ---------------- C22 ---------------- *)

\* the liquidation predicate was evaluated on the last day of the series
LastDayChecked ==
    calc.op = "check_liquidate_condition" /\ calc.row = Len(DeclineSeries)

AllPositions == closed_positions \o positions

\* position p as it was before Position.close
BeforeClose(p) ==
    [p EXCEPT !.exit_date = None, !.exit_price = None, !.exit_premium = None,
              !.pnl = 0]

\* C23: a position is created only by open_position, is closed at most once
\* and always for its full contract count, and moves from the open list to
\* the closed list in the operation that closes it: at all times no position
\* is in both lists, every closed position has exit date, exit price and exit
\* premium set, and every open position has none of them set.
C23_PositionLifecycle ==
    /\ \A k \in 1..Len(positions) :
           /\ positions[k].exit_date = None
           /\ positions[k].exit_price = None
           /\ positions[k].exit_premium = None
    /\ \A k \in 1..Len(closed_positions) :
           /\ closed_positions[k].exit_date # None
           /\ closed_positions[k].exit_date >= closed_positions[k].entry_date
           /\ closed_positions[k].exit_price # None
           /\ closed_positions[k].exit_premium # None
    /\ \A j, k \in 1..Len(AllPositions) :
           AllPositions[j].entry_date = AllPositions[k].entry_date => j = k
    /\ Len(AllPositions) = Cardinality(OfType(signals, {"BUY"}))
    /\ \A k \in OfType(signals, {"BUY"}) :
           \E j \in 1..Len(AllPositions) :
               /\ AllPositions[j].entry_date = signals[k].date
               /\ AllPositions[j].contracts = signals[k].details.contracts
    /\ (last.kind \in {"day", "finish"} /\ NewlyClosed = <<>>) =>
           /\ Len(positions) \in {Len(last.positions), Len(last.positions) + 1}
           /\ SubSeq(positions, 1, Len(last.positions)) = last.positions
    /\ (last.kind \in {"day", "finish"} /\ NewlyClosed # <<>>) =>
           /\ Len(NewlyClosed) = Len(last.positions)
           /\ \A k \in 1..Len(NewlyClosed) :
                  /\ BeforeClose(NewlyClosed[k]) = last.positions[k]
                  /\ NewlyClosed[k].exit_date = Today
           /\ positions = <<>>

\* a liquidation has closed two positions at once
C23_Witness ==
    /\ DayDone
    /\ Len(NewlyClosed) >= 2
    /\ positions = <<>>

\* the end-of-run close has closed a position while earlier ones were closed
\* by a liquidation
C23_WitnessFinish ==
    /\ last.kind = "finish"
    /\ NewlyClosed # <<>>
    /\ Len(closed_positions) > Len(NewlyClosed)

(* ---------------- C24 ---------------- *)

\* C24: the entry premium of a position is the model price of a contract
\* whose time to expiry is the configured tenor, the number of days between
\* the entry date and the expiry date of the position: the days the entry
\* is priced with are the days to its expiry, and a position closed on the
\* day it was entered, from the same price and the same history, leaves at
\* the premium it entered at.
C24_EntryPricedAtTenor ==
    /\ \A k \in 1..Len(AllPositions) :
           AllPositions[k].expiry_date - AllPositions[k].entry_date
               = EntryPricingDays
    /\ \A k \in 1..Len(closed_positions) :
           closed_positions[k].exit_date = closed_positions[k].entry_date =>
               closed_positions[k].exit_premium
                   = closed_positions[k].entry_premium

\* a position with a tenor of 7 days, entered on the last day of the run at
\* the price of a contract of 365 days, is closed on that day at another
\* premium
C24_Witness ==
    /\ phase = "done"
    /\ cfg.tenor_days = 7
    /\ \E k \in 1..Len(closed_positions) :
           /\ closed_positions[k].exit_date = closed_positions[k].entry_date
           /\ closed_positions[k].expiry_date
                  = closed_positions[k].entry_date + 7
           /\ closed_positions[k].exit_premium
                  # closed_positions[k].entry_premium

(* ---------------- C25 ---------------- *)

\* the position the last iteration bought
Bought == positions[Len(positions)]

\* the cost of one contract of the position the last iteration bought
ContractCost == Bought.entry_premium * ContractMultiplier

\* C25: a buy sizes its order as max(1, floor(weekly_amount / (premium x
\* 100))) contracts, one contract when the premium is 0: the count is at
\* least 1; when more than one contract is bought the order costs no more
\* than weekly_amount and one contract more would cost more; when a single
\* contract costs more than weekly_amount one contract is bought all the
\* same, at a cost above weekly_amount.
C25_OrderSize ==
    (DayDone /\ last.outcome = "bought") =>
        /\ Bought.contracts >= 1
        /\ ContractCost = 0 => Bought.contracts = 1
        /\ Bought.contracts > 1 =>
               /\ Bought.contracts * ContractCost <= cfg.weekly_amount
               /\ (Bought.contracts + 1) * ContractCost > cfg.weekly_amount
        /\ (ContractCost > 0 /\ ContractCost <= cfg.weekly_amount) =>
               /\ Bought.contracts * ContractCost <= cfg.weekly_amount
               /\ (Bought.contracts + 1) * ContractCost > cfg.weekly_amount
        /\ ContractCost > cfg.weekly_amount =>
               /\ Bought.contracts = 1
               /\ last.cash - cash > cfg.weekly_amount
        /\ last.cash - cash = Bought.contracts * ContractCost

\* one contract was bought that costs more than the weekly amount
C25_Witness ==
    /\ DayDone
    /\ last.outcome = "bought"
    /\ ContractCost > cfg.weekly_amount
    /\ Bought.contracts = 1

\* two contracts were bought for a weekly amount that pays for two and a half
C25_WitnessFloor ==
    /\ DayDone
    /\ last.outcome = "bought"
    /\ cfg.weekly_amount = 250
    /\ Bought.contracts = 2

(* ---------------- C26 ---------------- *)

\* the order of the last buy attempt would exceed the exposure limit
OverExposure == ExposureExceeded(cfg, last.positions, AttemptedCost)

\* C26: a buy attempt whose cost exceeds the cash is a silent no-op: it
\* records no BUY and no MAX_EXPOSURE signal, also when the order would
\* exceed the exposure limit as well, the run goes on, and cash, the open
\* positions and the ACTIVE state are what they were.
C26_SilentWithoutCash ==
    /\ (BuyAttempted /\ AttemptedCost > last.cash) =>
           /\ last.outcome = "no_cash"
           /\ OfType(NewSignals, {"BUY", "MAX_EXPOSURE", "PAUSE", "LIQUIDATE"}) = {}
           /\ cash = last.cash
           /\ positions = last.positions
           /\ Len(closed_positions) = last.closed
           /\ ~pause_buying
           /\ phase = "running"
    /\ (DayDone /\ last.outcome = "no_cash") =>
           BuyAttempted /\ AttemptedCost > last.cash

\* a buy attempt that exceeds both the cash and the exposure limit has
\* recorded nothing
C26_Witness ==
    /\ BuyAttempted
    /\ AttemptedCost > last.cash
    /\ OverExposure
    /\ last.positions # <<>>
    /\ OfType(NewSignals, {"MAX_EXPOSURE"}) = {}

(* ---------------- C27 ---------------- *)

\* the engine as it was before the last iteration
EngineBefore ==
    [positions |-> last.positions,
     closed_positions |-> SubSeq(closed_positions, 1, last.closed),
     equity_curve |-> SubSeq(equity_curve, 1, day - 1),
     signals |-> SubSeq(signals, 1, last.signals),
     cash |-> last.cash,
     pause_buying |-> last.was_paused,
     days_above_200ma |-> last.counter,
     db_trades |-> SubSeq(db_trades, 1, Len(db_trades) - Len(NewlyClosed)),
     step |-> "none", resumed |-> FALSE, outcome |-> "none"]

\* the price table cut after the day of the last iteration
RowsSoFar == SubSeq(prices, 1, day)

\* the last iteration as it goes on the table cut after its day
DayOnRowsSoFar ==
    DayResult(cfg, EngineBefore, RowsSoFar, day, quotes[day], vixLoaded,
              vixRows[day])

\* C27: the equity sample of day d is taken before the liquidation, resume,
\* pause or buy of day d and from the prices up to day d only: its value is
\* the cash plus the mark-to-market of the positions open at the start of
\* the day, its count the number of those positions; and the sample and the
\* decisions of day d are the ones made on the price series cut after day
\* d, so that two series that agree up to day d give the same samples and
\* decisions up to day d.
C27_SampleBeforeActions ==
    DayDone =>
        /\ Len(equity_curve) = day
        /\ equity_curve[day].date = Today
        /\ equity_curve[day].positions = Len(last.positions)
        /\ equity_curve[day].value =
               last.cash + SumSeq([k \in 1..Len(last.positions) |->
                                      mark_to_market(cfg, last.positions[k],
                                                     RowsSoFar, day, quotes[day])])
        /\ SubSeq(equity_curve, 1, day - 1) = EngineBefore.equity_curve
        /\ DayOnRowsSoFar.equity_curve = equity_curve
        /\ DayOnRowsSoFar.step = last.step
        /\ DayOnRowsSoFar.outcome = last.outcome
        /\ DayOnRowsSoFar.resumed = last.resumed
        /\ DayOnRowsSoFar.positions = positions
        /\ DayOnRowsSoFar.closed_positions = closed_positions
        /\ DayOnRowsSoFar.signals = signals
        /\ DayOnRowsSoFar.cash = cash
        /\ DayOnRowsSoFar.pause_buying = pause_buying
        /\ DayOnRowsSoFar.days_above_200ma = days_above_200ma

\* on a day of a second run, with later rows in the table, positions were
\* liquidated: the sample of the day counts them and the cash differs from
\* the cash the sample was taken with
C27_Witness ==
    /\ DayDone
    /\ day < Len(prices)
    /\ last.step = "liquidate"
    /\ equity_curve[day].positions >= 1
    /\ positions = <<>>
    /\ cash # last.cash

\* on a day of a second run, with later rows in the table, a position was
\* bought: the sample of the day does not count it
C27_WitnessBought ==
    /\ DayDone
    /\ day < Len(prices)
    /\ last.outcome = "bought"
    /\ equity_curve[day].positions = Len(positions) - 1
    /\ prices[day + 1].close > prices[day].close

(* ---------------- C28 ---------------- *)

\* the sum of the pnl of the positions of ps
TotalPnl(ps) == SumSeq([k \in 1..Len(ps) |-> ps[k].pnl])

\* C28: after every day of a run and at its end, cash = initial_capital +
\* the pnl of the closed positions - the entry cost of the open positions:
\* cash changes only by the full cost of a position when it is opened and by
\* exit_premium x contracts x 100 when it is closed.
C28_CashAccounting ==
    /\ phase \in {"running", "done"} =>
           cash = cfg.initial_capital + TotalPnl(closed_positions)
                      - CostBasis(positions)
    /\ last.kind \in {"day", "finish"} =>
           cash - last.cash =
               SumSeq([k \in 1..Len(NewlyClosed) |->
                          NewlyClosed[k].exit_premium * NewlyClosed[k].contracts
                              * ContractMultiplier])
               - (CostBasis(positions)
                      - (IF NewlyClosed = <<>> THEN CostBasis(last.positions)
                                               ELSE 0))

\* positions closed at a loss and at a gain, and cash that is not the
\* initial capital
C28_Witness ==
    /\ phase = "done"
    /\ \E j, k \in 1..Len(closed_positions) :
           closed_positions[j].pnl < 0 /\ closed_positions[k].pnl > 0
    /\ cash # cfg.initial_capital

\* a position is open at a cost while another was closed at a loss
C28_WitnessOpen ==
    /\ DayDone
    /\ CostBasis(positions) > 0
    /\ TotalPnl(closed_positions) < 0

(* ---------------- C29 ---------------- *)

\* position p has reached its expiry date on the day of the last iteration
Expired(p) == p.expiry_date <= Today

\* the value of position p in the equity sample of the day when it has
\* reached its expiry date
IntrinsicValue(p) ==
    (IF Close(prices, day) > p.strike THEN Close(prices, day) - p.strike ELSE 0)
        * p.contracts * ContractMultiplier

\* C29: reaching its expiry date does not close a position: an open
\* position leaves the open list only through a liquidation or the
\* end-of-run close; until then a position past expiry stays open, is valued
\* at its intrinsic value max(price - strike, 0) in the equity sample of the
\* day, and counts at its entry cost in the exposure gate.
C29_ExpiryDoesNotClose ==
    /\ (DayDone /\ last.step # "liquidate") =>
           /\ Len(positions) >= Len(last.positions)
           /\ SubSeq(positions, 1, Len(last.positions)) = last.positions
           /\ NewlyClosed = <<>>
    /\ (DayDone /\ last.step = "liquidate") =>
           /\ ShouldLiquidate
           /\ Len(NewlyClosed) = Len(last.positions)
    /\ (DayDone /\ \A k \in 1..Len(last.positions) : Expired(last.positions[k])) =>
           equity_curve[day].value =
               last.cash + SumSeq([k \in 1..Len(last.positions) |->
                                      IntrinsicValue(last.positions[k])])
    /\ DayDone => equity_curve[day].positions = Len(last.positions)
    /\ (BuyAttempted /\ AttemptedCost <= last.cash) =>
           (last.outcome = "max_exposure" <=>
                (CostBasis(last.positions) + AttemptedCost) * 100 > ExposureCap)

\* a position in the money, three days past its expiry date, is open after
\* the day and was valued at its intrinsic value
C29_Witness ==
    /\ DayDone
    /\ last.step # "liquidate"
    /\ Len(last.positions) = 1
    /\ positions[1] = last.positions[1]
    /\ positions[1].expiry_date < Today
    /\ Close(prices, day) > positions[1].strike
    /\ equity_curve[day].value = last.cash + IntrinsicValue(positions[1])

\* a buy is refused at the exposure limit because of the entry cost of a
\* position that is on its expiry date and worth nothing
C29_WitnessExposure ==
    /\ BuyAttempted
    /\ last.outcome = "max_exposure"
    /\ Len(last.positions) = 1
    /\ Expired(last.positions[1])
    /\ IntrinsicValue(last.positions[1]) = 0
    /\ AttemptedCost * 100 <= ExposureCap

(* ---------------- C30 ---------------- *)

\* C30: for every configuration, the final_value run() reports, the value
\* of the last equity sample, is the cash after the end-of-run close; and on
\* every day on which a liquidation closes all positions the cash after the
\* close is the portfolio value sampled for that day.
C30_FinalValueIsCash ==
    /\ phase = "done" =>
           /\ results[1].final_value = equity_curve[Len(equity_curve)].value
           /\ results[1].final_value = cash
    /\ (DayDone /\ last.step = "liquidate") => cash = equity_curve[day].value

\* the same with the tenor at one year, where the entry of a position is
\* priced as its close on the same day is
C30_FinalValueIsCashAtOneYear ==
    cfg.tenor_days = EntryPricingDays => C30_FinalValueIsCash

\* a run with a tenor of 7 days has bought on its last day and reports a
\* final value that is not its cash
C30_Witness ==
    /\ phase = "done"
    /\ cfg.tenor_days = 7
    /\ results[1].final_value # cash
    /\ \E k \in 1..Len(closed_positions) :
           closed_positions[k].entry_date = Today

\* a liquidation has left the cash at the value sampled for the day, which
\* is not the cash the day began with
C30_WitnessLiquidation ==
    /\ DayDone
    /\ last.step = "liquidate"
    /\ cash = equity_curve[day].value
    /\ cash # last.cash

====
